---------------------------- MODULE Spec2Model ----------------------------
(***************************************************************************)
(* Clone-voice orchestration of pocket-tts-cli                             *)
(* (site/src/routes/api/clone-voice/+server.ts and the voice registry in   *)
(* site/src/lib/server/voices.ts).                                         *)
(*                                                                         *)
(* Text is a sequence of symbols.  A symbol is a line terminator ("LF",    *)
(* "CR"), a blank ("SP") or an unbreakable word of process output or of a  *)
(* form field; the string functions of the source (split, trim,            *)
(* toLowerCase, includes, slice, join) are computed on these sequences.    *)
(* The progress stream is the sequence of events handed to                 *)
(* controller.enqueue, in the order of the calls.                          *)
(***************************************************************************)
EXTENDS Integers, Sequences, FiniteSets, TLC

\* ------------------------------------------------------------------ bounds
\* Number of 'data' events one child process delivers (both pipes together).
MaxChunks == 2
\* Number of lines in the long output chunk (more than the reported tail).
BulkLines == 26
\* Number of request slots of the server.
NumReq == 2
\* Number of symbols a child process writes on one pipe when its output is
\* cut into arbitrary chunks.
MaxText == 3
\* Number of symbols of a source reference handed to makeCacheStem.
MaxRef == 3
\* Number of symbols of a line handed to the classifier on its own.
MaxLine == 3
\* Number of calls of DownloadManager.fetch.
MaxCalls == 3

Requests == 1..NumReq

\* ------------------------------------------------------- string primitives
Whitespace == {"SP", "LF", "CR"}

RECURSIVE trimStart(_)
trimStart(s) ==
    IF s = <<>> THEN s
    ELSE IF Head(s) \in Whitespace THEN trimStart(Tail(s)) ELSE s

RECURSIVE trimEnd(_)
trimEnd(s) ==
    IF s = <<>> THEN s
    ELSE IF s[Len(s)] \in Whitespace THEN trimEnd(SubSeq(s, 1, Len(s) - 1)) ELSE s

\* String.prototype.trim
trim(s) == trimEnd(trimStart(s))

\* String.prototype.toLowerCase, symbol by symbol
lowerOf(c) ==
    CASE c = "B" -> "b"
      [] c = "FFmpeg" -> "ffmpeg"
      [] c = "Saved voice WAV profile" -> "saved voice wav profile"
      [] c = "All jobs completed" -> "all jobs completed"
      [] OTHER -> c

toLowerCase(s) == [i \in 1..Len(s) |-> lowerOf(s[i])]

\* String.prototype.includes for an unbreakable word
includes(s, word) == \E i \in 1..Len(s) : s[i] = word

\* the parts of s between its separators, the k-th separator being
\* s[firsts[k]] .. s[lasts[k]]
partsBetween(s, firsts, lasts) ==
    [k \in 1..(Len(lasts) + 1) |->
        SubSeq(s,
               IF k = 1 THEN 1 ELSE lasts[k - 1] + 1,
               IF k = Len(lasts) + 1 THEN Len(s) ELSE firsts[k] - 1)]

\* buffer.split(/\r\n|\n|\r/): a separator is CR LF, or an LF, or a CR
splitTerminators(s) ==
    LET EndsSeparator(i) ==
            \/ s[i] = "LF"
            \/ s[i] = "CR" /\ ~(i < Len(s) /\ s[i + 1] = "LF")
        lasts == SelectSeq([i \in 1..Len(s) |-> i], EndsSeparator)
        firsts == [k \in 1..Len(lasts) |->
                     IF s[lasts[k]] = "LF" /\ lasts[k] > 1 /\ s[lasts[k] - 1] = "CR"
                     THEN lasts[k] - 1 ELSE lasts[k]]
    IN  partsBetween(s, firsts, lasts)

\* message.split("\n")
splitNewline(s) ==
    LET EndsSeparator(i) == s[i] = "LF"
        lasts == SelectSeq([i \in 1..Len(s) |-> i], EndsSeparator)
    IN  partsBetween(s, lasts, lasts)

\* parts.join("\n")
RECURSIVE joinNewline(_)
joinNewline(parts) ==
    IF parts = <<>> THEN <<>>
    ELSE IF Len(parts) = 1 THEN parts[1]
    ELSE parts[1] \o <<"LF">> \o joinNewline(Tail(parts))


\* name.startsWith(prefix)
startsWith(s, prefix) ==
    Len(s) >= Len(prefix) /\ SubSeq(s, 1, Len(prefix)) = prefix

\* ---------------------------------------------------------- Job Runner
\* the text in which every symbol of s is replaced by one or two symbols:
\* long holds the symbols that take two, first and second give the two
expand(s, long, first, second) ==
    LET end(i) == i + Cardinality({k \in 1..i : s[k] \in long})
    IN  [j \in 1..end(Len(s)) |->
            LET i == CHOOSE i \in 1..Len(s) : end(i - 1) < j /\ j <= end(i)
            IN  IF s[i] \notin long THEN s[i]
                ELSE IF j = end(i - 1) + 1 THEN first[s[i]] ELSE second[s[i]]]

\* decoder.decode(value, { stream: true }): the text of the bytes and the
\* incomplete character kept for the next call
utf8Decode(bytes, pending) ==
    LET all == pending \o bytes
        Lead(i) == all[i] = "C3"
        \* the second byte of a character whose first byte precedes it
        Second(i) == all[i] = "A9" /\ i > 1 /\ Lead(i - 1)
        Emits(i) == ~Second(i) /\ ~(Lead(i) /\ i = Len(all))
        at == SelectSeq([i \in 1..Len(all) |-> i], Emits)
    IN  [text |-> [k \in 1..Len(at) |->
                     IF Lead(at[k])
                     THEN IF all[at[k] + 1] = "A9" THEN "e'" ELSE "U+FFFD"
                     ELSE IF all[at[k]] = "A9" THEN "U+FFFD"
                     ELSE all[at[k]]],
         pending |-> IF all /= <<>> /\ Lead(Len(all)) THEN <<"C3">> ELSE <<>>]

\* decoder.decode(): what is left of an incomplete character
utf8Flush(pending) == IF pending = <<>> THEN <<>> ELSE <<"U+FFFD">>

\* flushBuffer that keeps no incomplete line for the next chunk
flushBuffer_dropRemainder(currentBuffer, force) ==
    IF ~force /\ currentBuffer = <<>>
    THEN [buffer |-> currentBuffer, lines |-> <<>>]
    ELSE LET all == splitTerminators(currentBuffer)
             trimmed == [i \in 1..Len(all) |-> trim(all[i])]
             NonEmpty(line) == line /= <<>>
         IN  [buffer |-> <<>>, lines |-> SelectSeq(trimmed, NonEmpty)]

\* flushBuffer (one pipe): the new buffer and the lines handed to onLine
flushBuffer(currentBuffer, force) ==
    IF ~force /\ currentBuffer = <<>>
    THEN [buffer |-> currentBuffer, lines |-> <<>>]
    ELSE LET all == splitTerminators(currentBuffer)
             parts == IF force THEN all ELSE SubSeq(all, 1, Len(all) - 1)
             remainder == IF force THEN <<>> ELSE all[Len(all)]
             trimmed == [i \in 1..Len(parts) |-> trim(parts[i])]
             NonEmpty(line) == line /= <<>>
         IN  [buffer |-> remainder, lines |-> SelectSeq(trimmed, NonEmpty)]

\* ------------------------------------------------------ Stage Classifier
NoStage == "null"

\* the classifier with its groups tried from the last to the first
inferCloneStageFromLine_lastGroupFirst(line) ==
    LET lower == toLowerCase(line) IN
    IF includes(lower, "all jobs completed")
    THEN "finalizing"
    ELSE IF includes(lower, "saved voice wav profile")
            \/ includes(lower, "saved voice safetensors profile")
    THEN "saving_profile"
    ELSE IF includes(lower, "exporting voice embedding")
            \/ includes(lower, "export-voice-embedding")
    THEN "cloning_voice"
    ELSE IF includes(lower, "extracting voice prompt clip") \/ includes(lower, "ffmpeg")
    THEN "extracting_audio"
    ELSE IF includes(lower, "downloading source audio")
            \/ includes(lower, "yt-dlp")
            \/ includes(lower, "[download]")
    THEN "downloading_media"
    ELSE NoStage

inferCloneStageFromLine(line) ==
    LET lower == toLowerCase(line) IN
    IF includes(lower, "downloading source audio")
       \/ includes(lower, "yt-dlp")
       \/ includes(lower, "[download]")
    THEN "downloading_media"
    ELSE IF includes(lower, "extracting voice prompt clip") \/ includes(lower, "ffmpeg")
    THEN "extracting_audio"
    ELSE IF includes(lower, "exporting voice embedding")
            \/ includes(lower, "export-voice-embedding")
    THEN "cloning_voice"
    ELSE IF includes(lower, "saved voice wav profile")
            \/ includes(lower, "saved voice safetensors profile")
    THEN "saving_profile"
    ELSE IF includes(lower, "all jobs completed")
    THEN "finalizing"
    ELSE NoStage

stageMessage(stage) ==
    IF stage = "starting" THEN "Starting clone job..."
    ELSE IF stage = "downloading_media" THEN "Downloading media..."
    ELSE IF stage = "extracting_audio" THEN "Extracting audio clip..."
    ELSE IF stage = "cloning_voice" THEN "Cloning voice embedding..."
    ELSE IF stage = "saving_profile" THEN "Saving voice profile..."
    ELSE "Finalizing clone..."

\* ------------------------------------------------- process-failure message
\* number of lines kept by .slice(-25)
TailLines == 25

\* parts.slice(-n), taken from the wrong end
lastLines_head(parts, n) ==
    IF Len(parts) <= n THEN parts ELSE SubSeq(parts, 1, n)

\* parts.slice(-n)
lastLines(parts, n) ==
    IF Len(parts) <= n THEN parts ELSE SubSeq(parts, Len(parts) - n + 1, Len(parts))

\* result.stderr || result.stdout || "Voice clone failed."
failureText(stderr, stdout) ==
    IF stderr /= <<>> THEN stderr
    ELSE IF stdout /= <<>> THEN stdout
    ELSE <<"Voice clone failed.">>

failureMessage(stderr, stdout) ==
    LET message == trim(failureText(stderr, stdout))
    IN  joinNewline(lastLines(splitNewline(message), TailLines))

NotFoundMessage == <<"Clone completed but could not locate saved voice profile.">>

\* --------------------------------------------------- validation predicates
\* the symbols matched by [A-Za-z0-9_]
DigitSeq == <<"0", "1", "2", "3", "4", "5", "6", "7", "8", "9">>
Digits == {DigitSeq[i] : i \in 1..10}
WordChars == {"a", "b", "B", "wav", "_"} \cup Digits

\* VOICE_NAME_PATTERN.test(value), /^[A-Za-z0-9_]+$/
isValidVoiceName(value) ==
    value /= <<>> /\ \A i \in 1..Len(value) : value[i] \in WordChars

\* the version pattern without its first class, /^[0-9]+$/
isValidVersion_leadingZero(value) ==
    /\ value /= <<>>
    /\ \A i \in 1..Len(value) : value[i] \in Digits

\* VERSION_PATTERN.test(value), /^[1-9][0-9]*$/
isValidVersion(value) ==
    /\ value /= <<>>
    /\ value[1] \in Digits \ {"0"}
    /\ \A i \in 1..Len(value) : value[i] \in Digits

digitValue(c) == (CHOOSE i \in 1..10 : DigitSeq[i] = c) - 1

digitSymbol(d) == DigitSeq[d + 1]

\* the decimal name of ten to the power 21, the least whole number that
\* String() writes with an exponent
Sextillion == [i \in 1..22 |-> IF i = 1 THEN "1" ELSE "0"]

\* the number 1e21, written as a number above every other version of the model
Huge == 2000000000

\* String(1e21)
ExponentForm == <<"1", "e", "+", "2", "1">>

\* Number(entry.name) for a decimal directory name
RECURSIVE toNumber(_)
toNumber(value) ==
    IF value = Sextillion THEN Huge
    ELSE IF value = <<>> THEN 0
    ELSE 10 * toNumber(SubSeq(value, 1, Len(value) - 1)) + digitValue(value[Len(value)])

\* String(version)
RECURSIVE toDecimal(_)
toDecimal(n) ==
    IF n = Huge THEN ExponentForm
    ELSE IF n < 10 THEN <<digitSymbol(n)>>
    ELSE Append(toDecimal(n \div 10), digitSymbol(n % 10))

\* the rejection test of the voice name, line 182
nameRejected(voiceNameRaw) ==
    ~isValidVoiceName(voiceNameRaw) \/ includes(voiceNameRaw, "-")

\* the rejection test of the uploaded file without the size check
fileRejected_anySize(sourceFile) ==
    sourceFile.kind /= "file"

\* the rejection test of the uploaded file, line 219
fileRejected(sourceFile) ==
    sourceFile.kind /= "file" \/ sourceFile.size = 0

\* sourceFile.name.replace(/[^A-Za-z0-9._-]+/g, "_") || "upload.bin"
RECURSIVE sanitize(_, _)
sanitize(name, inRun) ==
    IF name = <<>> THEN <<>>
    ELSE IF Head(name) \in WordChars \cup {".", "-"}
         THEN <<Head(name)>> \o sanitize(Tail(name), FALSE)
    ELSE IF inRun THEN sanitize(Tail(name), TRUE)
    ELSE <<"_">> \o sanitize(Tail(name), TRUE)

uploadFileName(name) ==
    IF sanitize(name, FALSE) = <<>> THEN <<"upload.bin">> ELSE sanitize(name, FALSE)

\* -------------------------------------------------------- Download Cache
\* the characters of a hexadecimal digest
HexChars == Digits \cup {"a", "b", "c", "d", "e", "f"}

\* createHash("sha256").update(s).digest("hex"): 64 hexadecimal characters,
\* different for the references u1 and u2 and for any other text
sha256hex(s) ==
    [i \in 1..64 |->
        IF s = <<"u1">> THEN (IF i % 2 = 1 THEN "a" ELSE "1")
        ELSE IF s = <<"u2">> THEN (IF i % 2 = 1 THEN "b" ELSE "2")
        ELSE "0"]

\* text.slice(0, n)
sliceTo(text, n) == SubSeq(text, 1, IF n < Len(text) THEN n ELSE Len(text))

\* the one symbol that file names hold for the characters of a fingerprint
hexName(chars) ==
    CASE chars = sliceTo(sha256hex(<<"u1">>), 20) -> "d1"
      [] chars = sliceTo(sha256hex(<<"u2">>), 20) -> "d2"
      [] OTHER -> "d0"

\* createHash("sha256").update(s).digest("hex").slice(0, 20)
sha256hex20(s) == hexName(sliceTo(sha256hex(s), 20))

\* the stem of the reference as it was handed over
makeCacheStem_untrimmed(sourceUrl) == <<"source_", sha256hex20(sourceUrl)>>

makeCacheStem(sourceUrl) == <<"source_", sha256hex20(trim(sourceUrl))>>

\* the legacy stem taken to be the current one
legacyStemOf_same(cacheStem) == cacheStem

\* cacheStem.replace(/^source_/, "youtube_")
legacyStemOf(cacheStem) ==
    IF cacheStem /= <<>> /\ Head(cacheStem) = "source_"
    THEN <<"youtube_">> \o Tail(cacheStem)
    ELSE cacheStem

\* the entries selected for deletion, lines 154-160
evictionTargets(entries, sourceUrl) ==
    LET cacheStem == makeCacheStem(sourceUrl)
        legacyStem == legacyStemOf(cacheStem)
    IN  {name \in entries :
            \/ startsWith(name, cacheStem \o <<".">>)
            \/ startsWith(name, legacyStem \o <<".">>)
            \/ name = cacheStem
            \/ name = legacyStem}

\* the eviction that gives up when an unlink rejects
clearDownloadCacheForUrl_giveUp(dir, sourceUrl, readable, failing) ==
    LET entries == IF readable THEN dir ELSE {}
        targets == evictionTargets(entries, sourceUrl)
    IN  IF targets \cap failing /= {} THEN dir ELSE dir \ targets

\* clearDownloadCacheForUrl: the directory afterwards; readable is FALSE when
\* readdir rejects, failing are the entries whose unlink rejects
clearDownloadCacheForUrl(dir, sourceUrl, readable, failing) ==
    LET entries == IF readable THEN dir ELSE {}
        targets == evictionTargets(entries, sourceUrl)
    IN  dir \ (targets \ failing)

\* --------------------------------------------------------- Voice Registry
charRank(c) ==
    CASE c = "_" -> 0
      [] c \in Digits -> 1 + digitValue(c)
      [] c = "a" -> 11
      [] OTHER -> 12

RECURSIVE primaryCompare(_, _)
primaryCompare(a, b) ==
    IF a = <<>> /\ b = <<>> THEN 0
    ELSE IF a = <<>> THEN -1
    ELSE IF b = <<>> THEN 1
    ELSE IF charRank(Head(a)) < charRank(Head(b)) THEN -1
    ELSE IF charRank(Head(a)) > charRank(Head(b)) THEN 1
    ELSE primaryCompare(Tail(a), Tail(b))

RECURSIVE caseCompare(_, _)
caseCompare(a, b) ==
    IF a = <<>> \/ b = <<>> THEN 0
    ELSE IF Head(a) = Head(b) THEN caseCompare(Tail(a), Tail(b))
    ELSE IF Head(a) = lowerOf(Head(a)) THEN -1 ELSE 1

\* a.name.localeCompare(b.name) on names of word characters: letters first
\* compared without case, lower case first among otherwise equal names
localeCompare(a, b) ==
    IF primaryCompare(toLowerCase(a), toLowerCase(b)) /= 0
    THEN primaryCompare(toLowerCase(a), toLowerCase(b))
    ELSE caseCompare(a, b)

\* the comparator that puts the lower version of a name first
compareVoices_versionAscending(a, b) ==
    IF localeCompare(a.name, b.name) /= 0
    THEN localeCompare(a.name, b.name)
    ELSE a.version - b.version

\* the comparator of the final sort, lines 80-84
compareVoices(a, b) ==
    IF localeCompare(a.name, b.name) /= 0
    THEN localeCompare(a.name, b.name)
    ELSE b.version - a.version

RECURSIVE sortVoices(_)
sortVoices(S) ==
    IF S = {} THEN <<>>
    ELSE LET first == CHOOSE v \in S : \A w \in S : compareVoices(v, w) <= 0
         IN  <<first>> \o sortVoices(S \ {first})

\* existsSync(path.join(root, name, vdir, "voice.safetensors"))
existsSync(root, name, vdir) ==
    \E x \in root : /\ x.name = name /\ x.vdir = vdir
                    /\ x.nameIsDirectory /\ x.isDirectory /\ x.artifact

\* listLocalVoices(voicesRoot): root is the set of version entries on disk,
\* readable is FALSE when readdir of the root rejects (the root is missing or
\* unreadable), unreadable holds the names whose own readdir rejects
listLocalVoices(root, readable, unreadable) ==
    LET kept == {e \in (IF readable THEN root ELSE {}) :
                    /\ e.nameIsDirectory
                    /\ isValidVoiceName(e.name)
                    /\ e.name \notin unreadable
                    /\ e.isDirectory
                    /\ isValidVersion(e.vdir)
                    /\ existsSync(root, e.name, toDecimal(toNumber(e.vdir)))}
    IN  sortVoices({[name |-> e.name,
                     version |-> toNumber(e.vdir),
                     relativeSafetensorsPath |->
                         e.name \o <<"/">> \o toDecimal(toNumber(e.vdir))
                                \o <<"/", "voice.safetensors">>] : e \in kept})

\* voices.filter((voice) => voice.name === voiceName).map((voice) => voice.version)
createdVersionsOf(voices, voiceName) ==
    LET Named(voice) == voice.name = voiceName
        found == SelectSeq(voices, Named)
    IN  [i \in 1..Len(found) |-> found[i].version]

\* the resolution that takes the lowest of the created versions
latestVersionOf_min(createdVersions) ==
    IF Len(createdVersions) > 0
    THEN <<CHOOSE v \in {createdVersions[i] : i \in 1..Len(createdVersions)} :
              \A i \in 1..Len(createdVersions) : v <= createdVersions[i]>>
    ELSE <<>>

\* createdVersions.length > 0 ? Math.max(...createdVersions) : null
\* (null is the empty sequence, a version v is <<v>>)
latestVersionOf(createdVersions) ==
    IF Len(createdVersions) > 0
    THEN <<CHOOSE v \in {createdVersions[i] : i \in 1..Len(createdVersions)} :
              \A i \in 1..Len(createdVersions) : createdVersions[i] <= v>>
    ELSE <<>>

\* ------------------------------------------------------------------ state
VARIABLES
    job,            \* per request: the locals of POST and of its stream job
    voicesRoot,     \* <repo>/voices: the version entries on disk
    downloadsDir,   \* <repo>/media/downloads: the file names in the cache
    tmp,            \* os.tmpdir(): the paths existing under it
    faults          \* failures of the surroundings that may occur

vars == <<job, voicesRoot, downloadsDir, tmp, faults>>

\* ----------------------------------------------------------------- inputs
\* A form field is <<>> when absent and <<value>> when present.
NoFile == [kind |-> "absent", size |-> 0, name |-> <<>>]
TextAsFile == [kind |-> "string", size |-> 0, name |-> <<>>]
EmptyFile == [kind |-> "file", size |-> 0, name |-> <<"a", ".", "wav">>]
ClipFile == [kind |-> "file", size |-> 1, name |-> <<"a", "SP", "SP", "b", ".", "wav">>]

UrlForm ==
    [sourceMode |-> <<>>, sourceUrl |-> <<<<"SP", "u1">>>>,
     voiceName |-> <<<<"SP", "a", "B", "SP">>>>, start |-> <<>>, end |-> <<>>,
     cacheDownloads |-> <<"false">>, sourceFile |-> NoFile]

FileForm ==
    [sourceMode |-> <<"file">>, sourceUrl |-> <<>>,
     voiceName |-> <<<<"a">>>>, start |-> <<<<"t1">>>>, end |-> <<>>,
     cacheDownloads |-> <<>>, sourceFile |-> ClipFile]

ModeSamples == {<<>>, <<"url">>, <<"file">>, <<"record">>}
UrlSamples == {<<>>, <<<<>>>>, <<<<"SP">>>>, <<<<"SP", "u1">>>>}
NameSamples ==
    {<<>>, <<<<>>>>, <<<<"SP">>>>, <<<<"a">>>>, <<<<"a", "-", "b">>>>,
     <<<<"a", "SP", "b">>>>, <<<<"-">>>>, <<<<"a", ".">>>>, <<<<"_", "1">>>>}
FileSamples == {NoFile, TextAsFile, EmptyFile, ClipFile}
CacheSamples == {<<>>, <<"false">>, <<"true">>}
TimeSamples == {<<>>, <<<<"SP">>>>, <<<<"t1">>>>}

\* every form that differs from the url form in its mode, url, name or cache
\* flag, or from the upload form in its file or end time, and the upload
\* forms that carry a bad name or an unknown mode
FormSamples ==
    {[UrlForm EXCEPT !.sourceMode = m] : m \in ModeSamples}
    \cup {[UrlForm EXCEPT !.sourceUrl = u] : u \in UrlSamples}
    \cup {[UrlForm EXCEPT !.voiceName = n] : n \in NameSamples}
    \cup {[UrlForm EXCEPT !.cacheDownloads = c] : c \in CacheSamples}
    \cup {[FileForm EXCEPT !.sourceFile = f] : f \in FileSamples}
    \cup {[FileForm EXCEPT !.end = t] : t \in TimeSamples}
    \cup {[FileForm EXCEPT !.voiceName = <<<<"a", "-", "b">>>>],
          [FileForm EXCEPT !.sourceMode = <<"record">>]}

\* what one 'data' event may carry; the long chunk numbers its lines
RECURSIVE Bulk(_)
Bulk(n) == IF n = 0 THEN <<>> ELSE Bulk(n - 1) \o toDecimal(n) \o <<"LF">>

ChunkSamples ==
    {<<"FFmpeg", "SP", "x", "LF">>,
     <<"x", "CR", "LF", "SP", "export-voice-embedding">>,
     <<"Saved voice WAV profile", "LF", "All jobs completed", "CR">>,
     Bulk(BulkLines)}

\* child.on("close", (code) => ...): code is null (<<>>) after a signal
ExitCodes == {<<0>>, <<1>>, <<>>}

VersionEntry(name, vdir, artifact) ==
    [name |-> name, nameIsDirectory |-> TRUE,
     vdir |-> vdir, isDirectory |-> TRUE, artifact |-> artifact]

RegistrySamples ==
    {{},
     {VersionEntry(<<"a">>, <<"1">>, TRUE), VersionEntry(<<"a">>, <<"2">>, FALSE),
      VersionEntry(<<"a", "b">>, <<"1">>, TRUE), VersionEntry(<<"a", "b">>, <<"0", "2">>, TRUE),
      VersionEntry(<<"a", "-", "b">>, <<"1">>, TRUE)}}

DownloadSamples ==
    {<<"source_", "d1", ".", "mp3">>, <<"youtube_", "d1", ".", "webm">>,
     <<"source_", "d1">>, <<"source_", "d2", ".", "mp3">>,
     <<"source_", "d1", "x", ".", "mp3">>}

\* ------------------------------------------------------------ job record
Pending == [state |-> "pending", code |-> 0, stdout |-> <<>>, stderr |-> <<>>,
            error |-> <<>>]

NoResponse == [status |-> 0, error |-> ""]

IdleJob ==
    [pc |-> "idle", form |-> UrlForm,
     sourceMode |-> "", sourceUrl |-> <<>>, voiceName |-> <<>>,
     start |-> <<>>, end |-> <<>>, cacheDownloads |-> TRUE,
     args |-> <<>>, tempDir |-> <<>>, response |-> NoResponse,
     stream |-> <<>>, streamClosed |-> FALSE, controllerClosed |-> FALSE,
     currentStage |-> NoStage,
     child |-> "none", wrote |-> FALSE, chunks |-> 0,
     stdout |-> <<>>, stderr |-> <<>>, stdoutBuffer |-> <<>>, stderrBuffer |-> <<>>,
     result |-> Pending, voices |-> <<>>, latestVersion |-> <<>>,
     mkdtempCalls |-> 0, spawnCalls |-> 0, evictCalls |-> 0, listCalls |-> 0,
     rmCalls |-> 0,
     cancelled |-> FALSE,     \* the caller cancelled the stream
     thrown |-> FALSE,        \* an exception is propagating
     delivered |-> <<>>,      \* the lines handed to onLine, with their pipe
     closeCode |-> <<>>,      \* the code argument of the 'close' event
     cacheReadFailed |-> FALSE, unlinkFailed |-> {},
     rootReadFailed |-> FALSE,   \* readdir of the registry root rejected
     unreadableNames |-> {},     \* the names whose readdir rejected
     produced |-> {},            \* the version entries the process created
     client |-> [pc |-> "none", wire |-> <<>>, pos |-> 0, pending |-> <<>>,
                 buffer |-> <<>>, result |-> <<>>, cloneProgress |-> <<>>,
                 error |-> <<>>, handled |-> <<>>, cut |-> FALSE,
                 ended |-> FALSE],
     outBytes |-> <<>>, errBytes |-> <<>>,   \* the bytes each pipe delivered
     cacheStem |-> <<>>,
     classified |-> [line |-> <<>>, stage |-> <<>>],
     artifact |-> [voice |-> <<>>, version |-> <<>>, readCalls |-> 0, status |-> 0,
                   path |-> <<>>],
     fetched |-> 0,
     page |-> [availableVoices |-> <<>>, selectedVoiceName |-> <<>>,
               selectedVoiceVersion |-> <<>>, voicesError |-> <<>>,
               cloning |-> FALSE, cloneProgress |-> <<>>,
               cloneError |-> <<>>, cloneSuccess |-> <<>>,
               pc |-> "idle", last |-> [op |-> "none"]],
     download |-> [state |-> <<>>, timers |-> 0,
                   calls |-> [c \in 1..MaxCalls |->
                                [pc |-> "idle", resolved |-> FALSE]]]]

\* new Response(JSON.stringify({ error }), { status })
jsonError(j, status, error) ==
    [j EXCEPT !.response = [status |-> status, error |-> error], !.pc = "done"]

\* -------------------------------------------- closeStream / emit / setStage
\* closeStream that leaves the stream open
closeStream_never(j) == j

\* A statement reached while an exception propagates (j.thrown) is skipped.
\* controller.close() and controller.enqueue() throw a TypeError once the
\* caller has cancelled the stream.
closeStream(j) ==
    IF j.thrown THEN j
    ELSE IF ~j.streamClosed
    THEN IF j.cancelled
         THEN [j EXCEPT !.streamClosed = TRUE, !.thrown = TRUE]
         ELSE [j EXCEPT !.streamClosed = TRUE, !.controllerClosed = TRUE]
    ELSE j

emit(j, event) ==
    IF j.thrown THEN j
    ELSE IF j.streamClosed THEN j
    ELSE IF j.cancelled THEN [j EXCEPT !.thrown = TRUE]
    ELSE [j EXCEPT !.stream = Append(@, event)]

StageEvent(stage) ==
    [type |-> "stage", stage |-> stage, message |-> stageMessage(stage)]

ErrorEvent(message) == [type |-> "error", error |-> message]

ResultEvent(voiceName, version) ==
    [type |-> "result", voiceName |-> voiceName, version |-> version,
     cloneDir |-> <<"voices", "/">> \o voiceName \o <<"/">> \o toDecimal(version)]

\* setStage without the comparison with the current stage
setStage_always(j, stage) ==
    IF j.thrown THEN j
    ELSE emit([j EXCEPT !.currentStage = stage], StageEvent(stage))

setStage(j, stage) ==
    IF j.thrown THEN j
    ELSE IF j.currentStage = stage THEN j
    ELSE emit([j EXCEPT !.currentStage = stage], StageEvent(stage))

\* the callback with a stage of its own for the lines it does not recognize
onLine_unrecognizedRestarts(j, line) ==
    IF inferCloneStageFromLine(line) /= NoStage
    THEN setStage(j, inferCloneStageFromLine(line))
    ELSE setStage(j, "starting")

\* the onLine callback of POST, lines 276-281
onLine(j, line) ==
    IF inferCloneStageFromLine(line) /= NoStage
    THEN setStage(j, inferCloneStageFromLine(line))
    ELSE j

\* for (const part of parts) ... onLine(line), in flushBuffer(isStderr); an
\* exception thrown by onLine ends the loop
RECURSIVE onLines(_, _, _)
onLines(j, lines, isStderr) ==
    IF lines = <<>> \/ j.thrown THEN j
    ELSE onLines(onLine([j EXCEPT !.delivered =
                             Append(@, [isStderr |-> isStderr, line |-> Head(lines)])],
                        Head(lines)),
                 Tail(lines), isStderr)

\* the buffer flushBuffer(isStderr) reads, whichever pipe is flushed
pipeBuffer_shared(j, isStderr) == j.stdoutBuffer

\* const currentBuffer = isStderr ? stderrBuffer : stdoutBuffer
pipeBuffer(j, isStderr) == IF isStderr THEN j.stderrBuffer ELSE j.stdoutBuffer

\* flushBuffer(isStderr, force) on the state of the runner: the remainder is
\* stored in the pipe's buffer, then the lines go to onLine
flushInto(j, isStderr, force) ==
    IF j.thrown THEN j
    ELSE LET f == flushBuffer(pipeBuffer(j, isStderr), force)
         IN  onLines(IF isStderr THEN [j EXCEPT !.stderrBuffer = f.buffer]
                     ELSE [j EXCEPT !.stdoutBuffer = f.buffer],
                     f.lines, isStderr)

\* stdout += text; stdoutBuffer += text (or the same for stderr)
received(j, text, isStderr) ==
    IF isStderr
    THEN [j EXCEPT !.stderr = @ \o text, !.stderrBuffer = @ \o text, !.chunks = @ + 1]
    ELSE [j EXCEPT !.stdout = @ \o text, !.stdoutBuffer = @ \o text, !.chunks = @ + 1]

\* the jobs after a listener when the current stage is one holder for all
listenerReturns_sharedStage(jobs, r, j) ==
    [q \in Requests |->
        IF q = r THEN j ELSE [jobs[q] EXCEPT !.currentStage = j.currentStage]]

\* the jobs after a listener of request r's child has run and left j: an
\* exception that leaves a listener is uncaught and ends the server process
\* with every request it was serving
listenerReturns(jobs, r, j) ==
    IF j.thrown
    THEN [q \in Requests |->
            IF q = r THEN [j EXCEPT !.pc = "crashed"]
            ELSE IF jobs[q].pc \in {"idle", "done"} THEN jobs[q]
            ELSE [jobs[q] EXCEPT !.pc = "crashed"]]
    ELSE [jobs EXCEPT ![r] = j]

\* rm(dir, { recursive: true, force: true }); ok is FALSE when it rejects
rm(paths, dir, ok) ==
    IF ok THEN {p \in paths : ~startsWith(p, dir)} ELSE paths

RmOutcomes == IF "rm" \in faults THEN BOOLEAN ELSE {TRUE}

\* ------------------------------------------------------------------ Init
Init ==
    /\ job = [r \in Requests |-> IdleJob]
    /\ voicesRoot \in RegistrySamples
    /\ downloadsDir = DownloadSamples
    /\ tmp = {}
    /\ faults = {}

\* ------------------------------------------------------- POST, up to the stream
\* await request.formData() delivers the fields
Receive(r) ==
    /\ job[r].pc = "idle"
    /\ \E f \in FormSamples :
         job' = [job EXCEPT ![r] = [@ EXCEPT !.form = f, !.pc = "validate"]]
    /\ UNCHANGED <<voicesRoot, downloadsDir, tmp, faults>>

\* await request.formData() rejects: the outer catch answers 500
ReceiveMalformed(r) ==
    /\ job[r].pc = "idle"
    /\ job' = [job EXCEPT ![r] = jsonError(@, 500, "formData rejected")]
    /\ UNCHANGED <<voicesRoot, downloadsDir, tmp, faults>>

\* formData.get(field)?.toString().trim() ?? ""
trimmedField(field) == IF field = <<>> THEN <<>> ELSE trim(field[1])

\* the argument list with --start in every case
baseArgs_alwaysStart(voiceName, start, end) ==
    << <<"run">>, <<"src", "/", "pocket_tts_youtube_pipeline.py">>,
       <<"--output-root">>, <<"repo", "/", "voices">>,
       <<"--voice">>, voiceName,
       <<"--skip-generate">>, <<"--verbose-command-output">> >>
    \o << <<"--start">>, start >>
    \o (IF end /= <<>> THEN << <<"--end">>, end >> ELSE <<>>)

\* lines 196-207
baseArgs(voiceName, start, end) ==
    << <<"run">>, <<"src", "/", "pocket_tts_youtube_pipeline.py">>,
       <<"--output-root">>, <<"repo", "/", "voices">>,
       <<"--voice">>, voiceName,
       <<"--skip-generate">>, <<"--verbose-command-output">> >>
    \o (IF start /= <<>> THEN << <<"--start">>, start >> ELSE <<>>)
    \o (IF end /= <<>> THEN << <<"--end">>, end >> ELSE <<>>)

\* lines 175-236 up to the first await or return
Validate(r) ==
    /\ job[r].pc = "validate"
    /\ LET f == job[r].form
           sourceMode == IF f.sourceMode = <<>> THEN "url" ELSE f.sourceMode[1]
           sourceUrl == trimmedField(f.sourceUrl)
           voiceNameRaw == trimmedField(f.voiceName)
           start == trimmedField(f.start)
           end == trimmedField(f.end)
           cacheDownloads == f.cacheDownloads /= <<"false">>
           voiceName == toLowerCase(voiceNameRaw)
           parsed == [job[r] EXCEPT !.sourceMode = sourceMode, !.sourceUrl = sourceUrl,
                                    !.start = start, !.end = end,
                                    !.cacheDownloads = cacheDownloads]
           named == [parsed EXCEPT !.voiceName = voiceName,
                                   !.args = baseArgs(voiceName, start, end)]
       IN  job' = [job EXCEPT ![r] =
             IF nameRejected(voiceNameRaw)
             THEN jsonError(parsed, 400, "Invalid voice name.")
             ELSE IF "repoRoot" \in faults
             THEN jsonError([parsed EXCEPT !.voiceName = voiceName], 500,
                            "Could not resolve repo root")
             ELSE IF sourceMode = "url"
             THEN IF sourceUrl = <<>>
                  THEN jsonError(named, 400, "Source URL is required.")
                  ELSE [named EXCEPT !.args = @ \o << <<"--source-url">>, sourceUrl >>,
                                     !.pc = "start"]
             ELSE IF sourceMode = "file"
             THEN IF fileRejected(f.sourceFile)
                  THEN jsonError(named, 400, "Local source file is required.")
                  ELSE [named EXCEPT !.pc = "mkdtemp"]
             ELSE jsonError(named, 400, "Invalid source mode.")]
    /\ UNCHANGED <<voicesRoot, downloadsDir, tmp, faults>>

\* mkdtemp(path.join(os.tmpdir(), "pocket-tts-site-")): a fresh directory
freshTempDir(r) == <<"tmp", "/", "pocket-tts-site-", digitSymbol(r)>>

\* line 225; when mkdtemp rejects the outer catch answers 500 with tempDir null
Mkdtemp(r) ==
    /\ job[r].pc = "mkdtemp"
    /\ \E ok \in BOOLEAN :
         /\ job' = [job EXCEPT ![r] =
              IF ok
              THEN [@ EXCEPT !.tempDir = freshTempDir(r), !.mkdtempCalls = @ + 1,
                             !.pc = "write"]
              ELSE jsonError([@ EXCEPT !.mkdtempCalls = @ + 1], 500, "mkdtemp rejected")]
         /\ tmp' = IF ok THEN tmp \cup {freshTempDir(r)} ELSE tmp
    /\ UNCHANGED <<voicesRoot, downloadsDir, faults>>

\* path is dir or a directory above it
IsPrefixOfDir(path, dir) == Len(path) <= Len(dir) /\ path = SubSeq(dir, 1, Len(path))

\* path.join(dir, name) for a name without separators: the names . and ..
\* are resolved, every other name is appended
pathJoin(dir, name) ==
    IF name = <<".">> THEN dir
    ELSE IF name = <<".", ".">> THEN SubSeq(dir, 1, Len(dir) - 2)
    ELSE dir \o <<"/">> \o name

\* lines 226-230: stage the upload; a rejection goes to the outer catch, and
\* writeFile rejects when the path is a directory
WriteUpload(r) ==
    /\ job[r].pc = "write"
    /\ LET tempSourcePath ==
               pathJoin(job[r].tempDir, uploadFileName(job[r].form.sourceFile.name))
           outcomes == IF IsPrefixOfDir(tempSourcePath, job[r].tempDir)
                       THEN {FALSE} ELSE BOOLEAN
       IN  \E ok \in outcomes :
             /\ job' = [job EXCEPT ![r] =
                  IF ok
                  THEN [@ EXCEPT !.args = @ \o << <<"--source-file">>, tempSourcePath >>,
                                 !.pc = "start"]
                  ELSE [@ EXCEPT !.pc = "outer_catch"]]
             /\ tmp' = IF ok THEN tmp \cup {tempSourcePath} ELSE tmp
    /\ UNCHANGED <<voicesRoot, downloadsDir, faults>>

\* lines 342-353
OuterCatch(r) ==
    /\ job[r].pc = "outer_catch"
    /\ \E ok \in RmOutcomes :
         /\ tmp' = IF job[r].tempDir /= <<>> THEN rm(tmp, job[r].tempDir, ok) ELSE tmp
         /\ job' = [job EXCEPT ![r] =
              jsonError([@ EXCEPT !.rmCalls = IF job[r].tempDir /= <<>> THEN @ + 1 ELSE @],
                        500, "writeFile rejected")]
    /\ UNCHANGED <<voicesRoot, downloadsDir, faults>>

\* ------------------------------------------------ the stream job (start)
\* the first stage pair with the two stages in the wrong order
initialStages_swapped(j) ==
    setStage(setStage(j, IF j.sourceMode = "url" THEN "downloading_media"
                         ELSE "extracting_audio"),
             "starting")

\* lines 269-274
initialStages(j) ==
    setStage(setStage(j, "starting"),
             IF j.sourceMode = "url" THEN "downloading_media" ELSE "extracting_audio")

\* lines 240-274: the Response is built and start(controller) begins
StreamStart(r) ==
    /\ job[r].pc = "start"
    /\ job' = [job EXCEPT ![r] =
         [initialStages([@ EXCEPT !.response = [status |-> 200, error |-> ""],
                                  !.streamClosed = FALSE, !.currentStage = NoStage])
            EXCEPT !.pc = "spawn"]]
    /\ UNCHANGED <<voicesRoot, downloadsDir, tmp, faults>>

\* line 59: spawn("uv", args, ...); a failed spawn reports through 'error'
Spawn(r) ==
    /\ job[r].pc = "spawn"
    /\ \E ok \in BOOLEAN :
         job' = [job EXCEPT ![r] =
             [@ EXCEPT !.spawnCalls = @ + 1,
                       !.child = IF ok THEN "running" ELSE "failed",
                       !.pc = "run"]]
    /\ UNCHANGED <<voicesRoot, downloadsDir, tmp, faults>>

\* String(chunk): the bytes of one chunk decoded on their own, an incomplete
\* character at either end becoming replacement characters
chunkToString(chunk) ==
    LET decoded == utf8Decode(chunk, <<>>)
    IN  decoded.text \o utf8Flush(decoded.pending)

\* lines 84-89: the 'data' listener of child.stdout, called with chunk;
\* outBytes records the bytes the pipe has delivered
stdoutOnData(r, chunk) ==
    \E after \in {flushInto(received([job[r] EXCEPT !.outBytes = @ \o chunk],
                                     chunkToString(chunk), FALSE), FALSE, FALSE)} :
        job' = listenerReturns(job, r, after)

\* lines 90-95: the 'data' listener of child.stderr, called with chunk
stderrOnData(r, chunk) ==
    \E after \in {flushInto(received([job[r] EXCEPT !.errBytes = @ \o chunk],
                                     chunkToString(chunk), TRUE), TRUE, FALSE)} :
        job' = listenerReturns(job, r, after)

StdoutData(r) ==
    /\ job[r].pc = "run" /\ job[r].child = "running"
    /\ job[r].chunks < MaxChunks
    /\ \E text \in ChunkSamples : stdoutOnData(r, text)
    /\ UNCHANGED <<voicesRoot, downloadsDir, tmp, faults>>

StderrData(r) ==
    /\ job[r].pc = "run" /\ job[r].child = "running"
    /\ job[r].chunks < MaxChunks
    /\ \E text \in ChunkSamples : stderrOnData(r, text)
    /\ UNCHANGED <<voicesRoot, downloadsDir, tmp, faults>>

\* the version directory the pipeline writes into: one above the highest
\* numbered directory of the name
nextVersionOf(root, voiceName) ==
    LET taken == {toNumber(e.vdir) : e \in {x \in root : x.name = voiceName
                                                         /\ isValidVersion(x.vdir)}}
    IN  IF taken = {} THEN 1
        ELSE 1 + (CHOOSE v \in taken : \A w \in taken : w <= v)

\* the running pipeline stores its download in the cache and creates the
\* next version directory, with or without voice.safetensors in it
PipelineWrites(r) ==
    /\ job[r].pc = "run" /\ job[r].child = "running"
    /\ ~job[r].wrote
    /\ nextVersionOf(voicesRoot, job[r].voiceName) <= 9
    /\ \E artifact \in BOOLEAN :
         \E entry \in {VersionEntry(job[r].voiceName,
                                    toDecimal(nextVersionOf(voicesRoot, job[r].voiceName)),
                                    artifact)} :
            /\ voicesRoot' = voicesRoot \cup {entry}
            /\ job' = [job EXCEPT ![r].wrote = TRUE, ![r].produced = @ \cup {entry}]
    /\ downloadsDir' =
         IF job[r].sourceMode = "url"
         THEN downloadsDir \cup {makeCacheStem(job[r].sourceUrl) \o <<".", "mp3">>}
         ELSE downloadsDir
    /\ UNCHANGED <<tmp, faults>>

\* line 96: child.on("error", reject)
ChildError(r) ==
    /\ job[r].pc = "run" /\ job[r].child = "failed"
    /\ job[r].result.state = "pending"
    /\ job' = [job EXCEPT ![r].result =
                 [Pending EXCEPT !.state = "rejected", !.error = <<"spawn uv ENOENT">>]]
    /\ UNCHANGED <<voicesRoot, downloadsDir, tmp, faults>>

\* code ?? 1, with null as exit code 0
exitCodeOf_zero(code) == IF code = <<>> THEN 0 ELSE code[1]

\* code ?? 1
exitCodeOf(code) == IF code = <<>> THEN 1 ELSE code[1]

\* lines 97-101: child.on("close"): both buffers are flushed, then resolve
ChildClose(r) ==
    /\ job[r].pc = "run" /\ job[r].child = "running"
    /\ \E code \in ExitCodes :
         \E afterOut \in {flushInto(job[r], FALSE, TRUE)} :
           \E afterErr \in {flushInto(afterOut, TRUE, TRUE)} :
             job' = listenerReturns(job, r,
                 IF afterErr.thrown
                 THEN [afterErr EXCEPT !.child = "closed", !.closeCode = code]
                 ELSE [afterErr EXCEPT !.child = "closed", !.closeCode = code,
                                       !.result = [state |-> "resolved",
                                                   code |-> exitCodeOf(code),
                                                   stdout |-> afterErr.stdout,
                                                   stderr |-> afterErr.stderr,
                                                   error |-> <<>>]])
    /\ UNCHANGED <<voicesRoot, downloadsDir, tmp, faults>>

\* ------------------------------------------- the stream job (after the run)
\* lines 321-323 entered with the TypeError that enqueue or close threw
caught(j) ==
    IF j.thrown
    THEN [emit([j EXCEPT !.thrown = FALSE],
               ErrorEvent(<<"Invalid state: Controller is already closed">>))
            EXCEPT !.pc = "finally"]
    ELSE j

\* the catch block that reports nothing
rejected_silent(j) == [j EXCEPT !.pc = "finally"]

\* lines 321-323: the catch block of the job
rejected(j) == [emit(j, ErrorEvent(j.result.error)) EXCEPT !.pc = "finally"]

\* the success branch that evicts for every url source
zeroExit_evictCached(j) ==
    IF j.sourceMode = "url"
    THEN [j EXCEPT !.pc = "evict"]
    ELSE [setStage(j, "saving_profile") EXCEPT !.pc = "list"]

\* lines 293-297 up to the next await
zeroExit(j) ==
    IF j.sourceMode = "url" /\ ~j.cacheDownloads
    THEN [j EXCEPT !.pc = "evict"]
    ELSE [setStage(j, "saving_profile") EXCEPT !.pc = "list"]

\* the failure branch without closeStream() and return
nonzeroExit_fallthrough(j) ==
    zeroExit(emit(j, ErrorEvent(failureMessage(j.result.stderr, j.result.stdout))))

\* the failure branch without return
nonzeroExit_noReturn(j) ==
    zeroExit(closeStream(emit(j, ErrorEvent(failureMessage(j.result.stderr,
                                                           j.result.stdout)))))

\* lines 283-291
nonzeroExit(j) ==
    [closeStream(emit(j, ErrorEvent(failureMessage(j.result.stderr, j.result.stdout))))
        EXCEPT !.pc = "finally"]

\* the resolution that reports the result before the last stage
resolveVersion_resultFirst(j, voices) ==
    LET createdVersions == createdVersionsOf(voices, j.voiceName)
        latestVersion == latestVersionOf(createdVersions)
        listed == [j EXCEPT !.voices = voices, !.latestVersion = latestVersion,
                            !.listCalls = @ + 1]
    IN  IF latestVersion = <<>>
        THEN [closeStream(emit(listed, ErrorEvent(NotFoundMessage)))
                EXCEPT !.pc = "finally"]
        ELSE [setStage(emit(listed, ResultEvent(j.voiceName, latestVersion[1])),
                       "finalizing")
                EXCEPT !.pc = "finally"]

\* the resolution that reports a version although none was found
resolveVersion_unchecked(j, voices) ==
    LET createdVersions == createdVersionsOf(voices, j.voiceName)
        latestVersion == latestVersionOf(createdVersions)
        listed == [j EXCEPT !.voices = voices, !.latestVersion = latestVersion,
                            !.listCalls = @ + 1]
    IN  [emit(setStage(listed, "finalizing"),
              ResultEvent(j.voiceName,
                          IF latestVersion = <<>> THEN 0 ELSE latestVersion[1]))
            EXCEPT !.pc = "finally"]

\* the resolution that reports a missing profile as a process failure
resolveVersion_asFailure(j, voices) ==
    LET createdVersions == createdVersionsOf(voices, j.voiceName)
        latestVersion == latestVersionOf(createdVersions)
        listed == [j EXCEPT !.voices = voices, !.latestVersion = latestVersion,
                            !.listCalls = @ + 1]
    IN  IF latestVersion = <<>>
        THEN [closeStream(emit(listed, ErrorEvent(failureMessage(j.result.stderr,
                                                                 j.result.stdout))))
                EXCEPT !.pc = "finally"]
        ELSE [emit(setStage(listed, "finalizing"),
                   ResultEvent(j.voiceName, latestVersion[1]))
                EXCEPT !.pc = "finally"]

\* the resolution that reports the version the job's own process created
resolveVersion_ownVersion(j, voices) ==
    LET own == {toNumber(e.vdir) : e \in {x \in j.produced : x.artifact}}
        latestVersion == IF own = {} THEN <<>>
                         ELSE <<CHOOSE v \in own : \A w \in own : w <= v>>
        listed == [j EXCEPT !.voices = voices, !.latestVersion = latestVersion,
                            !.listCalls = @ + 1]
    IN  IF latestVersion = <<>>
        THEN [closeStream(emit(listed, ErrorEvent(NotFoundMessage)))
                EXCEPT !.pc = "finally"]
        ELSE [emit(setStage(listed, "finalizing"),
                   ResultEvent(j.voiceName, latestVersion[1]))
                EXCEPT !.pc = "finally"]

\* lines 299-320, voices being what listLocalVoices returned
resolveVersion(j, voices) ==
    LET createdVersions == createdVersionsOf(voices, j.voiceName)
        latestVersion == latestVersionOf(createdVersions)
        listed == [j EXCEPT !.voices = voices, !.latestVersion = latestVersion,
                            !.listCalls = @ + 1]
    IN  IF latestVersion = <<>>
        THEN [closeStream(emit(listed, ErrorEvent(NotFoundMessage)))
                EXCEPT !.pc = "finally"]
        ELSE [emit(setStage(listed, "finalizing"),
                   ResultEvent(j.voiceName, latestVersion[1]))
                EXCEPT !.pc = "finally"]

OnRejected(r) ==
    /\ job[r].pc = "run" /\ job[r].result.state = "rejected"
    /\ job' = [job EXCEPT ![r] = rejected(@)]
    /\ UNCHANGED <<voicesRoot, downloadsDir, tmp, faults>>

OnNonzeroExit(r) ==
    /\ job[r].pc = "run" /\ job[r].result.state = "resolved"
    /\ job[r].result.code /= 0
    /\ job' = [job EXCEPT ![r] = caught(nonzeroExit(@))]
    /\ UNCHANGED <<voicesRoot, downloadsDir, tmp, faults>>

OnZeroExit(r) ==
    /\ job[r].pc = "run" /\ job[r].result.state = "resolved"
    /\ job[r].result.code = 0
    /\ job' = [job EXCEPT ![r] = caught(zeroExit(@))]
    /\ UNCHANGED <<voicesRoot, downloadsDir, tmp, faults>>

\* line 294 and, once it has returned, line 297
ClearDownloadCache(r) ==
    /\ job[r].pc = "evict"
    /\ \E readable \in (IF "readdir" \in faults THEN BOOLEAN ELSE {TRUE}),
          failing \in (IF "unlink" \in faults
                       THEN SUBSET evictionTargets(downloadsDir, job[r].sourceUrl)
                       ELSE {{}}) :
         /\ downloadsDir' =
              clearDownloadCacheForUrl(downloadsDir, job[r].sourceUrl, readable, failing)
         /\ job' = [job EXCEPT ![r] =
              caught([setStage([@ EXCEPT !.evictCalls = @ + 1,
                                         !.cacheReadFailed = ~readable,
                                         !.unlinkFailed = IF readable THEN failing ELSE {}],
                               "saving_profile")
                        EXCEPT !.pc = "list"])]
    /\ UNCHANGED <<voicesRoot, tmp, faults>>

\* lines 299-320
ResolveVersion(r) ==
    /\ job[r].pc = "list"
    /\ \E readable \in (IF "readdirVoices" \in faults THEN BOOLEAN ELSE {TRUE}),
          unreadable \in (IF "readdirVoices" \in faults
                          THEN SUBSET {e.name : e \in voicesRoot}
                          ELSE {{}}) :
         job' = [job EXCEPT ![r] =
                   caught(resolveVersion([@ EXCEPT !.rootReadFailed = ~readable,
                                                   !.unreadableNames = unreadable],
                                         listLocalVoices(voicesRoot, readable, unreadable)))]
    /\ UNCHANGED <<voicesRoot, downloadsDir, tmp, faults>>

\* the finally block that leaves the staging directory behind
Finally_noCleanup(r) ==
    /\ job[r].pc = "finally"
    /\ job' = [job EXCEPT ![r] = [closeStream([@ EXCEPT !.tempDir = <<>>])
                                    EXCEPT !.pc = "done"]]
    /\ UNCHANGED <<voicesRoot, downloadsDir, tmp, faults>>

\* the cleanup that does not wait for the runner
Finally_whileRunning(r) ==
    /\ job[r].pc \in {"run", "finally"}
    /\ \E ok \in RmOutcomes :
         tmp' = IF job[r].tempDir /= <<>> THEN rm(tmp, job[r].tempDir, ok) ELSE tmp
    /\ job' = [job EXCEPT ![r] =
         [closeStream([@ EXCEPT !.rmCalls = IF job[r].tempDir /= <<>> THEN @ + 1 ELSE @,
                                !.tempDir = <<>>,
                                !.thrown = FALSE])
            EXCEPT !.thrown = @ \/ job[r].thrown, !.pc = "done"]]
    /\ UNCHANGED <<voicesRoot, downloadsDir, faults>>

\* lines 324-332; the block runs whether or not an exception is propagating,
\* which goes on propagating after it
Finally(r) ==
    /\ job[r].pc = "finally"
    /\ \E ok \in RmOutcomes :
         tmp' = IF job[r].tempDir /= <<>> THEN rm(tmp, job[r].tempDir, ok) ELSE tmp
    /\ job' = [job EXCEPT ![r] =
         [closeStream([@ EXCEPT !.rmCalls = IF job[r].tempDir /= <<>> THEN @ + 1 ELSE @,
                                !.tempDir = <<>>,
                                !.thrown = FALSE])
            EXCEPT !.thrown = @ \/ job[r].thrown, !.pc = "done"]]
    /\ UNCHANGED <<voicesRoot, downloadsDir, faults>>

\* the caller goes away: the server cancels the body stream of the response
Cancel(r) ==
    /\ job[r].response.status = 200
    /\ job[r].pc \in {"run", "evict", "list", "finally"}
    /\ ~job[r].cancelled /\ ~job[r].controllerClosed
    /\ job' = [job EXCEPT ![r].cancelled = TRUE]
    /\ UNCHANGED <<voicesRoot, downloadsDir, tmp, faults>>

\* ------------------------------------------------------------ specification
\* everything request r and its child process can do
Serve(r) ==
    \/ Receive(r)
    \/ ReceiveMalformed(r)
    \/ Validate(r)
    \/ Mkdtemp(r)
    \/ WriteUpload(r)
    \/ OuterCatch(r)
    \/ StreamStart(r)
    \/ Spawn(r)
    \/ StdoutData(r)
    \/ StderrData(r)
    \/ PipelineWrites(r)
    \/ ChildError(r)
    \/ ChildClose(r)
    \/ OnRejected(r)
    \/ OnNonzeroExit(r)
    \/ OnZeroExit(r)
    \/ ClearDownloadCache(r)
    \/ ResolveVersion(r)
    \/ Finally(r)

\* One request, served from arrival to completion, by a caller that stays
\* connected, in a deployment whose repository root resolves and whose
\* cleanup calls (rm, readdir, unlink) succeed: faults stays empty.
Next == Serve(1)

Spec == Init /\ [][Next]_vars

\* the steps that the scheduling of the server brings about: a continuation
\* of the handler or of the stream job whose await has settled is run by the
\* event loop, and the child process ends: it fails to spawn ('error') or
\* exits ('close')
Continue(r) ==
    \/ Validate(r) \/ Mkdtemp(r) \/ WriteUpload(r) \/ OuterCatch(r)
    \/ StreamStart(r) \/ Spawn(r)
    \/ ChildError(r) \/ ChildClose(r)
    \/ OnRejected(r) \/ OnNonzeroExit(r) \/ OnZeroExit(r)
    \/ ClearDownloadCache(r) \/ ResolveVersion(r) \/ Finally(r)

\* a step of Continue(r) is possible: a continuation of r is due, or r's
\* child has not ended, or the runner's promise has settled
Due(r) ==
    \/ job[r].pc \in {"validate", "mkdtemp", "write", "outer_catch", "start",
                      "spawn", "evict", "list", "finally"}
    \/ /\ job[r].pc = "run"
       /\ \/ job[r].child \in {"running", "failed"}
          \/ job[r].result.state /= "pending"

\* a step that moves the handler, the child or the runner's promise of r on
Moved(r) ==
    \/ job'[r].pc /= job[r].pc
    \/ job'[r].child /= job[r].child
    \/ job'[r].result.state /= job[r].result.state

\* Weak fairness of Continue(1), written out with Due(1) for what enables
\* Continue(1) and Moved(1) for its steps: either infinitely often no such
\* step is possible, or infinitely many of them are taken.  Arrival of a
\* request, output of the process and the writes of the pipeline are not
\* required to happen.
Fairness == ([]<>(~Due(1))) \/ ([]<><<Moved(1)>>_vars)

LiveSpec == Init /\ [][Next]_vars /\ Fairness

\* The same request with a caller that may go away while the job runs.
CancelNext == Serve(1) \/ Cancel(1)

CancelSpec == Init /\ [][CancelNext]_vars

\* ------------------------------------------------- the runner on any chunking
\* the symbols of the text written on stdout and on stderr
OutSymbols == {"x", "SP", "LF", "CR"}
ErrSymbols == {"y", "LF"}

\* every text of 1..n symbols
Texts(symbols, n) == UNION {[1..k -> symbols] : k \in 1..n}

\* the job of the url form once its process has been spawned
RunningJob ==
    [initialStages([IdleJob EXCEPT
         !.form = UrlForm, !.sourceMode = "url", !.sourceUrl = <<"u1">>,
         !.voiceName = <<"a", "b">>, !.cacheDownloads = FALSE,
         !.args = baseArgs(<<"a", "b">>, <<>>, <<>>) \o << <<"--source-url">>, <<"u1">> >>,
         !.response = [status |-> 200, error |-> ""]])
       EXCEPT !.pc = "run", !.child = "running", !.spawnCalls = 1]

PipeInit ==
    /\ job = [r \in Requests |-> IF r = 1 THEN RunningJob ELSE IdleJob]
    /\ voicesRoot = {}
    /\ downloadsDir = DownloadSamples
    /\ tmp = {}
    /\ faults = {}

\* a 'data' event of stdout that carries any next piece of the output
StdoutPiece(r) ==
    /\ job[r].pc = "run" /\ job[r].child = "running"
    /\ Len(job[r].stdout) < MaxText
    /\ \E text \in Texts(OutSymbols, MaxText - Len(job[r].stdout)) :
         stdoutOnData(r, text)
    /\ UNCHANGED <<voicesRoot, downloadsDir, tmp, faults>>

\* a 'data' event of stderr that carries any next piece of the output
StderrPiece(r) ==
    /\ job[r].pc = "run" /\ job[r].child = "running"
    /\ Len(job[r].stderr) < MaxText
    /\ \E text \in Texts(ErrSymbols, MaxText - Len(job[r].stderr)) :
         stderrOnData(r, text)
    /\ UNCHANGED <<voicesRoot, downloadsDir, tmp, faults>>

\* the bytes written on stdout and on stderr: x, a newline and the two bytes
\* of e-acute
OutBytes == {"x", "LF", "C3", "A9"}
ErrBytes == {"C3", "A9"}

\* a 'data' event of stdout that carries any next bytes of the output
StdoutBytes(r) ==
    /\ job[r].pc = "run" /\ job[r].child = "running"
    /\ Len(job[r].outBytes) < MaxText
    /\ \E chunk \in Texts(OutBytes, MaxText - Len(job[r].outBytes)) :
         stdoutOnData(r, chunk)
    /\ UNCHANGED <<voicesRoot, downloadsDir, tmp, faults>>

\* a 'data' event of stderr that carries any next bytes of the output
StderrBytes(r) ==
    /\ job[r].pc = "run" /\ job[r].child = "running"
    /\ Len(job[r].errBytes) < MaxText
    /\ \E chunk \in Texts(ErrBytes, MaxText - Len(job[r].errBytes)) :
         stderrOnData(r, chunk)
    /\ UNCHANGED <<voicesRoot, downloadsDir, tmp, faults>>

ByteNext == StdoutBytes(1) \/ StderrBytes(1) \/ ChildClose(1)

\* One running process whose two pipes deliver every byte string of up to
\* MaxText bytes in every chunking.
ByteSpec == PipeInit /\ [][ByteNext]_vars

PipeNext == StdoutPiece(1) \/ StderrPiece(1) \/ ChildClose(1)

\* One running process whose two pipes deliver every text of up to MaxText
\* symbols in every chunking and every interleaving, until it closes.
PipeSpec == PipeInit /\ [][PipeNext]_vars

\* ---------------------------------------------- the request under cleanup faults
\* the cleanup calls that may reject: rm of the staging directory, readdir of
\* the cache directory, unlink of a cache file
CleanupFaults == {"rm", "readdir", "unlink"}

FaultInit ==
    /\ job = [r \in Requests |-> IdleJob]
    /\ voicesRoot \in RegistrySamples
    /\ downloadsDir = DownloadSamples
    /\ tmp = {}
    /\ faults = CleanupFaults

\* The same request in a deployment where each cleanup call may reject.
FaultSpec == FaultInit /\ [][Next]_vars

\* ------------------------------------------------------- GET /api/voices
\* a version entry that is a file, and a file in the place of a name directory
VersionFile(name, vdir) ==
    [name |-> name, nameIsDirectory |-> TRUE,
     vdir |-> vdir, isDirectory |-> FALSE, artifact |-> FALSE]
NameFile(name) ==
    [name |-> name, nameIsDirectory |-> FALSE,
     vdir |-> <<"1">>, isDirectory |-> FALSE, artifact |-> FALSE]

\* the entries a registry root is drawn from
ListEntries ==
    {VersionEntry(<<"a">>, <<"1">>, TRUE), VersionEntry(<<"a">>, <<"2">>, FALSE),
     VersionEntry(<<"a">>, <<"1", "0">>, TRUE), VersionEntry(<<"a">>, <<"0", "2">>, TRUE),
     VersionEntry(<<"B">>, <<"1">>, TRUE), VersionFile(<<"B">>, <<"3">>),
     VersionEntry(<<"a", "b">>, <<"2">>, TRUE),
     VersionEntry(<<"a", "-", "b">>, <<"1">>, TRUE),
     VersionEntry(<<"a">>, Sextillion, TRUE), VersionEntry(<<"a">>, ExponentForm, TRUE),
     NameFile(<<"b">>)}

ListInit ==
    /\ job = [r \in Requests |-> IdleJob]
    /\ voicesRoot \in SUBSET ListEntries
    /\ downloadsDir = {}
    /\ tmp = {}
    /\ faults = {"readdirVoices"}

\* encodeURIComponent(text): word characters, - and . stay, every other
\* character becomes its percent escape
percentEscape(c) ==
    CASE c = "SP" -> "%20"
      [] c = "/" -> "%2F"
      [] c = "+" -> "%2B"
      [] c = "LF" -> "%0A"
      [] OTHER -> c

encodeURIComponent(text) ==
    [i \in 1..Len(text) |->
        IF text[i] \in WordChars \cup {"-", "."} THEN text[i] ELSE percentEscape(text[i])]

\* api/voices/+server.ts lines 12-16: the payload entry of a voice
voicePayload(voice) ==
    [name |-> voice.name, version |-> voice.version,
     url |-> <<"/api/voices/">> \o encodeURIComponent(voice.name)
                \o <<"/">> \o toDecimal(voice.version)]

\* api/voices/+server.ts GET
GetVoices(r) ==
    /\ job[r].pc = "idle"
    /\ \E readable \in (IF "readdirVoices" \in faults THEN BOOLEAN ELSE {TRUE}),
          unreadable \in (IF "readdirVoices" \in faults
                          THEN SUBSET {e.name : e \in voicesRoot}
                          ELSE {{}}) :
         \E voices \in {listLocalVoices(voicesRoot, readable, unreadable)} :
            job' = [job EXCEPT ![r].pc = "listed",
                               ![r].rootReadFailed = ~readable,
                               ![r].unreadableNames = unreadable,
                               ![r].listCalls = @ + 1,
                               ![r].voices = [i \in 1..Len(voices) |-> voicePayload(voices[i])],
                               ![r].response = [status |-> 200, error |-> ""]]
    /\ UNCHANGED <<voicesRoot, downloadsDir, tmp, faults>>

ListNext == GetVoices(1)

\* The listing endpoint over every registry drawn from ListEntries.
ListSpec == ListInit /\ [][ListNext]_vars

\* ------------------------------------------- two requests for one voice name
\* the two request slots that race
Racers == {1, 2}

\* the form both callers send: a url source for the voice name a
RaceForm == [UrlForm EXCEPT !.voiceName = <<<<"a">>>>]

RaceReceive(r) ==
    /\ job[r].pc = "idle"
    /\ job' = [job EXCEPT ![r] = [@ EXCEPT !.form = RaceForm, !.pc = "validate"]]
    /\ UNCHANGED <<voicesRoot, downloadsDir, tmp, faults>>

\* the steps of one of the two requests, its process printing nothing
RaceServe(r) ==
    \/ RaceReceive(r)
    \/ Validate(r)
    \/ StreamStart(r)
    \/ Spawn(r)
    \/ PipelineWrites(r)
    \/ ChildClose(r)
    \/ OnNonzeroExit(r)
    \/ OnZeroExit(r)
    \/ ClearDownloadCache(r)
    \/ ResolveVersion(r)
    \/ Finally(r)

RaceNext == RaceServe(1) \/ RaceServe(2)

\* Two requests for the same voice name, their handlers and their processes
\* interleaved in every order.
RaceSpec == Init /\ [][RaceNext]_vars

\* ------------------------------------------------- the progress protocol
\* the escapes JSON.stringify applies inside a string
escapeJson(s) ==
    expand(s, {"LF", "CR", "\"", "\\"},
           [c \in {"LF", "CR", "\"", "\\"} |-> "\\"],
           [c \in {"LF", "CR", "\"", "\\"} |->
               IF c = "LF" THEN "n" ELSE IF c = "CR" THEN "r" ELSE c])

\* JSON.stringify of a string
jsonString(s) == <<"\"">> \o escapeJson(s) \o <<"\"">>

\* the JSON values that are not objects
JsonNull == [json |-> "null"]
JsonNumber(n) == [json |-> "number", value |-> n]

\* JSON.stringify(value): the members of an object in the order of its type
jsonStringify(v) ==
    IF "json" \in DOMAIN v
    THEN IF v.json = "null" THEN <<"null">> ELSE toDecimal(v.value)
    ELSE IF v.type = "stage"
    THEN <<"{", "type:">> \o jsonString(<<"stage">>)
            \o <<",", "stage:">> \o jsonString(<<v.stage>>)
            \o <<",", "message:">> \o jsonString(<<v.message>>) \o <<"}">>
    ELSE IF v.type = "error"
    THEN <<"{", "type:">> \o jsonString(<<"error">>)
            \o <<",", "error:">> \o jsonString(v.error) \o <<"}">>
    ELSE IF v.type = "result"
    THEN <<"{", "type:">> \o jsonString(<<"result">>)
            \o <<",", "voiceName:">> \o jsonString(v.voiceName)
            \o <<",", "version:">> \o toDecimal(v.version)
            \o <<",", "cloneDir:">> \o jsonString(v.cloneDir) \o <<"}">>
    ELSE <<"{", "type:">> \o jsonString(<<v.type>>) \o <<"}">>

\* encoder.encode(text): the character e-acute takes two bytes, every other
\* symbol one
utf8Encode(text) ==
    expand(text, {"e'"}, [c \in {"e'"} |-> "C3"], [c \in {"e'"} |-> "A9"])

\* lines 253-256: the bytes enqueued for one event
eventBytes(event) == utf8Encode(jsonStringify(event) \o <<"LF">>)

\* the body of a response whose stream holds these events
RECURSIVE bodyOf(_)
bodyOf(events) ==
    IF events = <<>> THEN <<>> ELSE eventBytes(Head(events)) \o bodyOf(Tail(events))

\* ------------------------------------------------ the streaming consumer
\* the events of the streams that the consumer is given
EventSamples ==
    {StageEvent("starting"), StageEvent("finalizing"),
     ResultEvent(<<"a">>, 1),
     ErrorEvent(<<"x", "LF", "e'", "SP", "\"">>), ErrorEvent(<<>>),
     ErrorEvent(NotFoundMessage)}

\* the values a line can parse to: the events and values of other shapes
JsonValues == EventSamples \cup {JsonNull, JsonNumber(5), [type |-> "heartbeat"]}

\* JSON.parse(line): the value whose text the line is; <<>> when it throws
jsonParse(line) ==
    LET found == {v \in JsonValues : jsonStringify(v) = line}
    IN  IF found = {} THEN <<>> ELSE <<CHOOSE v \in found : TRUE>>

\* event.type and the other members read from a parsed value; <<>> is undefined
member(value, name) ==
    IF "json" \notin DOMAIN value /\ name \in DOMAIN value THEN <<value[name]>> ELSE <<>>

\* part_001 lines 381-401; c is the consumer, handled the values that were
\* parsed, in the order of their lines
handleLine(c, line) ==
    LET parsed == jsonParse(line)
    IN  IF parsed = <<>> THEN c
        ELSE LET event == parsed[1]
                 seen == [c EXCEPT !.handled = Append(@, event)]
             IN  IF event = JsonNull
                 THEN [seen EXCEPT !.pc = "threw",
                                   !.error = <<<<"TypeError: Cannot read properties of null">>>>]
                 ELSE IF member(event, "type") = <<"stage">>
                 THEN [seen EXCEPT !.cloneProgress = member(event, "message")]
                 ELSE IF member(event, "type") = <<"error">>
                 THEN [seen EXCEPT !.pc = "threw",
                                   !.error = IF member(event, "error") \in {<<>>, <<<<>>>>}
                                             THEN <<<<"Voice cloning failed.">>>>
                                             ELSE member(event, "error")]
                 ELSE [seen EXCEPT !.result = <<[voiceName |-> member(event, "voiceName"),
                                                 version |-> member(event, "version"),
                                                 cloneDir |-> member(event, "cloneDir")]>>]

\* buffer.indexOf("\n"), counted from 1; 0 when there is none
indexOfNewline(buffer) ==
    IF \E i \in 1..Len(buffer) : buffer[i] = "LF"
    THEN CHOOSE i \in 1..Len(buffer) :
            buffer[i] = "LF" /\ \A k \in 1..(i - 1) : buffer[k] /= "LF"
    ELSE 0

\* the loop that leaves the text after the last newline out of the buffer
RECURSIVE takeLines_dropRest(_)
takeLines_dropRest(c) ==
    IF c.pc = "threw" \/ indexOfNewline(c.buffer) = 0 THEN [c EXCEPT !.buffer = <<>>]
    ELSE LET at == indexOfNewline(c.buffer)
             rawLine == trim(SubSeq(c.buffer, 1, at - 1))
             sliced == [c EXCEPT !.buffer = SubSeq(@, at + 1, Len(@))]
         IN  takeLines_dropRest(IF rawLine /= <<>> THEN handleLine(sliced, rawLine)
                                ELSE sliced)

\* part_001 lines 407-415; an exception thrown by handleLine leaves the loop
RECURSIVE takeLines(_)
takeLines(c) ==
    IF c.pc = "threw" \/ indexOfNewline(c.buffer) = 0 THEN c
    ELSE LET at == indexOfNewline(c.buffer)
             rawLine == trim(SubSeq(c.buffer, 1, at - 1))
             sliced == [c EXCEPT !.buffer = SubSeq(@, at + 1, Len(@))]
         IN  takeLines(IF rawLine /= <<>> THEN handleLine(sliced, rawLine) ELSE sliced)

\* part_001 lines 404-415: one reader.read() that delivers value
\* cut records that a chunk has ended inside a record
readChunk(c, value) ==
    LET decoded == utf8Decode(value, c.pending)
        after == takeLines([c EXCEPT !.pos = @ + Len(value),
                                     !.pending = decoded.pending,
                                     !.buffer = @ \o decoded.text])
    IN  [after EXCEPT !.cut = @ \/ (after.pc = "reading"
                                     /\ after.pos < Len(after.wire)
                                     /\ (after.buffer /= <<>> \/ after.pending /= <<>>))]

\* part_001 lines 405 and 418-426: reader.read() reports the end of the stream;
\* ended records that the consumer got this far
readEnd(c) ==
    LET trailing == trim(c.buffer \o utf8Flush(c.pending))
        last == IF trailing /= <<>>
                THEN handleLine([c EXCEPT !.pending = <<>>, !.ended = TRUE], trailing)
                ELSE [c EXCEPT !.pending = <<>>, !.ended = TRUE]
    IN  IF last.pc = "threw" THEN last
        ELSE IF last.result = <<>>
        THEN [last EXCEPT !.pc = "threw",
                          !.error = <<<<"Voice cloning finished without a result.">>>>]
        ELSE [last EXCEPT !.pc = "returned"]

\* the streams of events a job can emit: stage events, then at most one
\* terminal event
StreamSamples ==
    {<<>>,
     <<StageEvent("starting")>>,
     <<StageEvent("starting"), ResultEvent(<<"a">>, 1)>>,
     <<StageEvent("starting"), StageEvent("finalizing"), ResultEvent(<<"a">>, 1)>>,
     <<StageEvent("starting"), ErrorEvent(<<"x", "LF", "e'", "SP", "\"">>)>>,
     <<StageEvent("starting"), ErrorEvent(NotFoundMessage)>>,
     <<ErrorEvent(<<>>)>>}

\* a body without its last newline
withoutLastNewline(body) ==
    IF body /= <<>> /\ body[Len(body)] = "LF" THEN SubSeq(body, 1, Len(body) - 1)
    ELSE body

\* lines that are no event: text that does not parse, the beginning of a
\* record, null, a number, an object of an unknown type
OddLines ==
    {<<"x">>, <<"{", "type:">> \o jsonString(<<"stage">>),
     jsonStringify(JsonNull), jsonStringify(JsonNumber(5)),
     jsonStringify([type |-> "heartbeat"])}

\* a body in which an odd line follows the first event of a stream (or
\* stands first in an empty stream)
withOddLine(events, line) ==
    IF events = <<>> THEN utf8Encode(line \o <<"LF">>)
    ELSE eventBytes(Head(events)) \o utf8Encode(line \o <<"LF">>) \o bodyOf(Tail(events))

\* the response bodies the consumer is given
BodySamples ==
    {bodyOf(events) : events \in StreamSamples}
    \cup {withoutLastNewline(bodyOf(events)) : events \in StreamSamples}
    \cup {withOddLine(events, line) : events \in StreamSamples, line \in OddLines}
    \cup {utf8Encode(<<"SP", "LF", "CR", "LF">>) \o bodyOf(events) : events \in StreamSamples}

\* submitCloneVoice up to the call of readCloneProgressStream: the progress
\* text is set and the response has arrived
ClientInit ==
    /\ \E body \in BodySamples :
          job = [r \in Requests |->
                   IF r = 1
                   THEN [IdleJob EXCEPT !.client =
                           [@ EXCEPT !.pc = "reading", !.wire = body,
                                     !.cloneProgress = <<"Starting clone job...">>]]
                   ELSE IdleJob]
    /\ voicesRoot = {}
    /\ downloadsDir = {}
    /\ tmp = {}
    /\ faults = {}

\* reader.read() resolves with the next bytes of the body, in a chunk of any
\* size
ClientRead(r) ==
    /\ job[r].client.pc = "reading"
    /\ job[r].client.pos < Len(job[r].client.wire)
    /\ \E n \in 1..(Len(job[r].client.wire) - job[r].client.pos) :
          \E value \in {SubSeq(job[r].client.wire, job[r].client.pos + 1,
                               job[r].client.pos + n)} :
             job' = [job EXCEPT ![r].client = readChunk(@, value)]
    /\ UNCHANGED <<voicesRoot, downloadsDir, tmp, faults>>

\* reader.read() resolves with done
ClientEnd(r) ==
    /\ job[r].client.pc = "reading"
    /\ job[r].client.pos = Len(job[r].client.wire)
    /\ job' = [job EXCEPT ![r].client = readEnd(@)]
    /\ UNCHANGED <<voicesRoot, downloadsDir, tmp, faults>>

ClientNext == ClientRead(1) \/ ClientEnd(1)

\* The consumer of the progress stream over every sample body in every
\* chunking.
ClientSpec == ClientInit /\ [][ClientNext]_vars

\* ------------------------------------- GET /api/voices/[voice]/[version]
\* the values of the two route parameters
VoiceParams ==
    {<<>>, <<"a">>, <<"a", "B", "_", "1">>, <<"_">>, <<"a", "-", "b">>, <<"a", ".">>,
     <<".", ".">>, <<"a", "/", "b">>, <<"a", "LF">>, <<"SP", "a">>}
VersionParams ==
    {<<>>, <<"1">>, <<"2">>, <<"1", "0">>, <<"0">>, <<"0", "2">>, <<"1", ".", "0">>,
     <<"-", "1">>, <<"1", "a">>, <<"1", "/", ".", ".">>}

\* readFile(path.join(root, voice, version, "voice.safetensors")) resolves
readFileResolves(root, voice, version) ==
    \E e \in root : /\ e.name = voice /\ e.vdir = version
                    /\ e.nameIsDirectory /\ e.isDirectory /\ e.artifact

\* lines 14-38: the answer for the parameters voice and version
artifactResponse(root, voice, version) ==
    IF ~isValidVoiceName(voice) \/ ~isValidVersion(version)
    THEN [voice |-> voice, version |-> version, readCalls |-> 0, status |-> 404,
          path |-> <<>>]
    ELSE [voice |-> voice, version |-> version, readCalls |-> 1,
          status |-> IF readFileResolves(root, voice, version) THEN 200 ELSE 404,
          path |-> voice \o <<"/">> \o version \o <<"/", "voice.safetensors">>]

\* api/voices/[voice]/[version]/+server.ts GET
GetArtifact(r) ==
    /\ job[r].pc = "idle"
    /\ \E voice \in VoiceParams, version \in VersionParams :
          job' = [job EXCEPT ![r].pc = "served",
                             ![r].artifact = artifactResponse(voicesRoot, voice, version)]
    /\ UNCHANGED <<voicesRoot, downloadsDir, tmp, faults>>

ArtifactInit ==
    /\ job = [r \in Requests |-> IdleJob]
    /\ voicesRoot \in RegistrySamples \cup {ListEntries}
    /\ downloadsDir = {}
    /\ tmp = {}
    /\ faults = {}

ArtifactNext == GetArtifact(1)

\* The artifact endpoint over every pair of sample parameters.
ArtifactSpec == ArtifactInit /\ [][ArtifactNext]_vars

\* ------------------------------------------------------- the cache stem
\* the source references handed to makeCacheStem
RefSamples == Texts({"SP", "LF", "u1", "u2"}, MaxRef)

StemInit ==
    /\ \E ref \in RefSamples :
          job = [r \in Requests |->
                   IF r = 1 THEN [IdleJob EXCEPT !.form.sourceUrl = <<ref>>] ELSE IdleJob]
    /\ voicesRoot = {}
    /\ downloadsDir = {}
    /\ tmp = {}
    /\ faults = {}

\* lines 141-147 applied to the reference of the form
MakeStem(r) ==
    /\ job[r].pc = "idle"
    /\ job' = [job EXCEPT ![r].pc = "stemmed",
                          ![r].cacheStem = makeCacheStem(job[r].form.sourceUrl[1])]
    /\ UNCHANGED <<voicesRoot, downloadsDir, tmp, faults>>

StemNext == MakeStem(1)

\* makeCacheStem over every reference of up to MaxRef symbols.
StemSpec == StemInit /\ [][StemNext]_vars

\* ------------------------------------------------- the classifier alone
\* what a line is made of: a trigger of each group, two of them in other
\* case, and a word that is no trigger
LineSymbols ==
    {"yt-dlp", "FFmpeg", "export-voice-embedding", "Saved voice WAV profile",
     "All jobs completed", "[download]", "x"}

ClassifyInit ==
    /\ \E line \in Texts(LineSymbols, MaxLine) :
          job = [r \in Requests |->
                   IF r = 1 THEN [IdleJob EXCEPT !.classified.line = line] ELSE IdleJob]
    /\ voicesRoot = {}
    /\ downloadsDir = {}
    /\ tmp = {}
    /\ faults = {}

\* lines 105-130 applied to the line
Classify(r) ==
    /\ job[r].pc = "idle"
    /\ job' = [job EXCEPT ![r].pc = "classified",
                          ![r].classified.stage =
                              <<inferCloneStageFromLine(job[r].classified.line)>>]
    /\ UNCHANGED <<voicesRoot, downloadsDir, tmp, faults>>

ClassifyNext == Classify(1)

\* inferCloneStageFromLine over every line of up to MaxLine symbols.
ClassifySpec == ClassifyInit /\ [][ClassifyNext]_vars

\* ------------------------------------------- two processes that print
\* the requests that run at the same time
Runners == {1, 2}

\* what the two processes print on stdout and on stderr
PairOut == {<<"FFmpeg", "LF">>, <<"x", "LF", "All jobs completed", "LF">>}
PairErr == {<<"export-voice-embedding", "LF">>}

PairInit ==
    /\ job = [r \in Requests |-> IF r \in Runners THEN RunningJob ELSE IdleJob]
    /\ voicesRoot = {}
    /\ downloadsDir = DownloadSamples
    /\ tmp = {}
    /\ faults = {}

\* a 'data' event of the process of request r
PairData(r) ==
    /\ job[r].pc = "run" /\ job[r].child = "running"
    /\ job[r].chunks < MaxChunks
    /\ \/ \E text \in PairOut : stdoutOnData(r, text)
       \/ \E text \in PairErr : stderrOnData(r, text)
    /\ UNCHANGED <<voicesRoot, downloadsDir, tmp, faults>>

\* the steps of one of the two requests from its running process on
PairServe(r) ==
    \/ PairData(r)
    \/ ChildClose(r)
    \/ OnNonzeroExit(r)
    \/ OnZeroExit(r)
    \/ ClearDownloadCache(r)
    \/ ResolveVersion(r)
    \/ Finally(r)

PairNext == PairServe(1) \/ PairServe(2)

\* Two requests whose processes print and close in every order, both callers
\* connected.
PairSpec == PairInit /\ [][PairNext]_vars

\* ------------------------------------------------- the argument list
\* uploads whose names are the directory and its parent
DotFile == [kind |-> "file", size |-> 1, name |-> <<".">>]
DotDotFile == [kind |-> "file", size |-> 1, name |-> <<".", ".">>]

\* fields that are absent, blank, plain, or spelled like an option
ArgModes == {<<>>, <<"url">>, <<"file">>, <<"record">>}
ArgUrls == {<<>>, << <<"SP", "u1", "SP">> >>, << <<"--source-file">> >>}
ArgTimes == {<<>>, << <<"SP">> >>, << <<"SP", "t1">> >>, << <<"--source-url">> >>}
ArgNames == {<< <<"SP", "a", "B", "SP">> >>, << <<"a", "-", "b">> >>}
ArgFiles == {NoFile, ClipFile, DotFile, DotDotFile}

ArgForms ==
    {[sourceMode |-> m, sourceUrl |-> u, voiceName |-> n, start |-> s, end |-> t,
      cacheDownloads |-> <<>>, sourceFile |-> f] :
        m \in ArgModes, u \in ArgUrls, n \in ArgNames, s \in ArgTimes, t \in ArgTimes,
        f \in ArgFiles}

ArgsReceive(r) ==
    /\ job[r].pc = "idle"
    /\ \E f \in ArgForms :
         job' = [job EXCEPT ![r] = [@ EXCEPT !.form = f, !.pc = "validate"]]
    /\ UNCHANGED <<voicesRoot, downloadsDir, tmp, faults>>

\* the steps of a request whose process prints nothing
ArgsServe(r) ==
    \/ ArgsReceive(r)
    \/ Validate(r)
    \/ Mkdtemp(r)
    \/ WriteUpload(r)
    \/ OuterCatch(r)
    \/ StreamStart(r)
    \/ Spawn(r)
    \/ ChildError(r)
    \/ ChildClose(r)
    \/ OnRejected(r)
    \/ OnNonzeroExit(r)
    \/ OnZeroExit(r)
    \/ ResolveVersion(r)
    \/ Finally(r)

ArgsNext == ArgsServe(1)

\* One request with every combination of the fields that reach the
\* argument list.
ArgsSpec == Init /\ [][ArgsNext]_vars

\* ------------------------------------------ listing, then the artifact
\* decodeURIComponent on one path segment
percentDecode(c) ==
    CASE c = "%20" -> "SP"
      [] c = "%2F" -> "/"
      [] c = "%2B" -> "+"
      [] c = "%0A" -> "LF"
      [] OTHER -> c

decodeURIComponent(text) == [i \in 1..Len(text) |-> percentDecode(text[i])]

\* const { voice, version } = params for a url of the route
\* /api/voices/[voice]/[version]
routeParams(url) ==
    LET rest == Tail(url)
        slash == CHOOSE i \in 1..Len(rest) :
                    rest[i] = "/" /\ \A k \in 1..(i - 1) : rest[k] /= "/"
    IN  [voice |-> decodeURIComponent(SubSeq(rest, 1, slash - 1)),
         version |-> decodeURIComponent(SubSeq(rest, slash + 1, Len(rest)))]

ListServeInit ==
    /\ job = [r \in Requests |-> IdleJob]
    /\ voicesRoot \in SUBSET ListEntries
    /\ downloadsDir = {}
    /\ tmp = {}
    /\ faults = {}

\* the artifact endpoint is asked for the url of an entry of the listing
FetchListed(r) ==
    /\ job[r].pc = "listed"
    /\ \E i \in 1..Len(job[r].voices) :
          LET params == routeParams(job[r].voices[i].url)
          IN  job' = [job EXCEPT ![r].pc = "served",
                                 ![r].fetched = i,
                                 ![r].artifact =
                                     artifactResponse(voicesRoot, params.voice,
                                                      params.version)]
    /\ UNCHANGED <<voicesRoot, downloadsDir, tmp, faults>>

ListServeNext == GetVoices(1) \/ FetchListed(1)

\* The listing over every registry drawn from ListEntries, followed by a
\* request for one of the listed urls.
ListServeSpec == ListServeInit /\ [][ListServeNext]_vars

\* ------------------------------------------------- DownloadManager.fetch
\* DownloadToast.svelte lines 90-136. downloadState is null (<<>>) or one
\* record; every call has its position; timers counts the pending
\* setTimeout callbacks of lines 119-121 and 131-133, which all do the same.
Calls == 1..MaxCalls

IsDownloading(state) == state /= <<>> /\ state[1].status = "downloading"

\* lines 100-103
Started(c) == <<[name |-> c, status |-> "downloading", loaded |-> <<>>]>>

\* lines 124-134: the catch block
failed(d, c) ==
    [d EXCEPT !.state = <<[name |-> c, status |-> "error", loaded |-> <<>>]>>,
              !.timers = @ + 1,
              !.calls[c].pc = "threw"]

DownloadInit ==
    /\ job = [r \in Requests |-> IdleJob]
    /\ voicesRoot = {}
    /\ downloadsDir = {}
    /\ tmp = {}
    /\ faults = {}

\* lines 92-105: fetch(name, url) up to its first await
CallFetch(r, c) ==
    /\ job[r].download.calls[c].pc = "idle"
    /\ job' = [job EXCEPT ![r].download =
         IF IsDownloading(@.state)
         THEN [@ EXCEPT !.calls[c].pc = "waiting"]
         ELSE [@ EXCEPT !.state = Started(c), !.calls[c].pc = "fetching"]]
    /\ UNCHANGED <<voicesRoot, downloadsDir, tmp, faults>>

\* lines 95-105: the 100 ms timer of a waiting call ends and the loop finds
\* no download in progress
PollWake(r, c) ==
    /\ job[r].download.calls[c].pc = "waiting"
    /\ ~IsDownloading(job[r].download.state)
    /\ job' = [job EXCEPT ![r].download =
         [@ EXCEPT !.state = Started(c), !.calls[c].pc = "fetching"]]
    /\ UNCHANGED <<voicesRoot, downloadsDir, tmp, faults>>

\* lines 105-112: the progress callback of cachedFetch
Progress(r, c) ==
    /\ job[r].download.calls[c].pc = "fetching"
    /\ job' = [job EXCEPT ![r].download.state =
         <<[name |-> c, status |-> "downloading", loaded |-> <<1>>]>>]
    /\ UNCHANGED <<voicesRoot, downloadsDir, tmp, faults>>

\* lines 114-123: cachedFetch resolved; reading downloadState.loaded throws
\* when downloadState is null, which the catch block handles
FetchResolves(r, c) ==
    /\ job[r].download.calls[c].pc = "fetching"
    /\ job' = [job EXCEPT ![r].download =
         IF @.state = <<>>
         THEN failed([@ EXCEPT !.calls[c].resolved = TRUE], c)
         ELSE [@ EXCEPT !.state = <<[name |-> c, status |-> "success",
                                     loaded |-> @[1].loaded]>>,
                        !.timers = @ + 1,
                        !.calls[c].resolved = TRUE,
                        !.calls[c].pc = "returned"]]
    /\ UNCHANGED <<voicesRoot, downloadsDir, tmp, faults>>

\* lines 124-134: cachedFetch rejected
FetchRejects(r, c) ==
    /\ job[r].download.calls[c].pc = "fetching"
    /\ job' = [job EXCEPT ![r].download = failed(@, c)]
    /\ UNCHANGED <<voicesRoot, downloadsDir, tmp, faults>>

\* lines 119-121, 131-133: a pending timer sets downloadState to null
TimerFires(r) ==
    /\ job[r].download.timers > 0
    /\ job' = [job EXCEPT ![r].download.state = <<>>, ![r].download.timers = @ - 1]
    /\ UNCHANGED <<voicesRoot, downloadsDir, tmp, faults>>

DownloadNext ==
    \/ \E c \in Calls : CallFetch(1, c)
    \/ \E c \in Calls : PollWake(1, c)
    \/ \E c \in Calls : Progress(1, c)
    \/ \E c \in Calls : FetchResolves(1, c)
    \/ \E c \in Calls : FetchRejects(1, c)
    \/ TimerFires(1)

\* MaxCalls calls of fetch on one DownloadManager, with the callbacks and
\* the timers in every order.
DownloadSpec == DownloadInit /\ [][DownloadNext]_vars

\* ------------------------------------------------------- the page state
\* part_001: availableVoices, the selection and the clone panel. A string
\* is a text, null is <<>> and a set value <<v>>; undefined and
\* String(undefined) are the text Undefined; pc is the place of a running
\* submitCloneVoice (idle when none runs); last records the operation that
\* was called last and what its response held.
Undefined == <<"undefined">>

\* the code unit of a character of a name
codeUnit(c) ==
    CASE c \in Digits -> 48 + digitValue(c)
      [] c = "B" -> 66
      [] c = "_" -> 95
      [] c = "a" -> 97
      [] c = "b" -> 98
      [] OTHER -> 120

\* a < b as Array.prototype.sort() without a comparator orders strings
RECURSIVE codeUnitLess(_, _)
codeUnitLess(a, b) ==
    IF b = <<>> THEN FALSE
    ELSE IF a = <<>> THEN TRUE
    ELSE IF codeUnit(Head(a)) /= codeUnit(Head(b)) THEN codeUnit(Head(a)) < codeUnit(Head(b))
    ELSE codeUnitLess(Tail(a), Tail(b))

\* Array.from(new Set(voices.map((voice) => voice.name))).sort()[0]; <<>>
\* when there is no voice
firstName(voices) ==
    LET names == {voices[i].name : i \in 1..Len(voices)}
    IN  IF names = {} THEN <<>>
        ELSE <<CHOOSE n \in names : \A m \in names : n = m \/ codeUnitLess(n, m)>>

\* lines 151-162
defaultVersionForVoice(voices, voiceName) ==
    LET versions == {voices[i].version : i \in {k \in 1..Len(voices) :
                                                  voices[k].name = voiceName}}
    IN  IF versions = {} THEN <<>>
        ELSE IF 1 \in versions THEN <<"1">>
        ELSE toDecimal(CHOOSE v \in versions : \A w \in versions : v <= w)

\* lines 164-195: loadVoices with the answer of GET /api/voices; ok is FALSE
\* when fetch rejects, the status is not 2xx or the body is no JSON
loadVoices(p, ok, voices) ==
    IF ok
    THEN LET selectedStillExists ==
                 \E i \in 1..Len(voices) :
                    /\ voices[i].name = p.selectedVoiceName
                    /\ toDecimal(voices[i].version) = p.selectedVoiceVersion
             fallbackName == firstName(voices)
             loaded == [p EXCEPT !.voicesError = <<>>, !.availableVoices = voices]
         IN  IF selectedStillExists THEN loaded
             ELSE [loaded EXCEPT
                     !.selectedVoiceName =
                         IF fallbackName = <<>> THEN <<>> ELSE fallbackName[1],
                     !.selectedVoiceVersion =
                         IF fallbackName = <<>> THEN <<>>
                         ELSE defaultVersionForVoice(voices, fallbackName[1])]
    ELSE [p EXCEPT !.voicesError = <<"Failed to load cloned voices">>,
                   !.availableVoices = <<>>,
                   !.selectedVoiceName = <<>>,
                   !.selectedVoiceVersion = <<>>]

\* lines 197-200
handleVoiceNameChange(p, voiceName) ==
    [p EXCEPT !.selectedVoiceName = voiceName,
              !.selectedVoiceVersion = defaultVersionForVoice(p.availableVoices, voiceName)]

\* lines 434-455: the message of the validation that fails, none when all pass
validationError(f) ==
    IF ~isValidVoiceName(trim(f.cloneVoiceName)) \/ includes(trim(f.cloneVoiceName), "-")
    THEN <<"Voice name must contain only letters, numbers, and underscores (no hyphens).">>
    ELSE IF f.cloneSourceMode = "url" /\ trim(f.cloneSourceUrl) = <<>>
    THEN <<"Source URL is required.">>
    ELSE IF f.cloneSourceMode = "file" /\ ~f.cloneSourceFile
    THEN <<"Local source file is required.">>
    ELSE IF f.cloneSourceMode = "record" /\ ~f.cloneRecordedFile
    THEN <<"Record a microphone clip first.">>
    ELSE IF f.cloneSourceMode = "record" /\ f.recording
    THEN <<"Stop recording before cloning.">>
    ELSE <<>>

\* lines 375-427: the consumer after its last read: it has thrown, or it
\* handles the end of the stream
readToEnd(read) == IF read.pc = "threw" THEN read ELSE readEnd(read)

\* readCloneProgressStream(response) on a body that arrives in one chunk
readCloneProgressStream(body) ==
    readToEnd(IF body = <<>>
              THEN [IdleJob.client EXCEPT !.pc = "reading", !.wire = body,
                                          !.cloneProgress = <<"Starting clone job...">>]
              ELSE readChunk([IdleJob.client EXCEPT
                                !.pc = "reading", !.wire = body,
                                !.cloneProgress = <<"Starting clone job...">>], body))

\* lines 486-498: the message thrown for a response that is not ok, from the
\* text and what JSON.parse makes of it (<<>> when it throws)
httpErrorOf(status, responseText, parsed) ==
    IF parsed = <<>> THEN responseText
    ELSE IF parsed[1] = JsonNull THEN <<"TypeError: Cannot read properties of null">>
    ELSE IF member(parsed[1], "error") /= <<>> THEN member(parsed[1], "error")[1]
    ELSE <<"Voice cloning failed (HTTP ", digitSymbol(status \div 100), "xx).">>

\* lines 484-499
httpErrorMessage(status, responseText) ==
    httpErrorOf(status, responseText,
                IF trim(responseText) = <<>> THEN <<[type |-> "empty"]>>
                ELSE jsonParse(responseText))

\* lines 502-503: what the consumer c gives when it has ended
streamOutcome(c) ==
    [result |-> IF c.pc = "returned" THEN c.result ELSE <<>>,
     error |-> IF c.pc = "returned" THEN <<>> ELSE c.error,
     handled |-> c.handled]

\* lines 505-517: what the text of a JSON response gives, from what
\* JSON.parse makes of it
jsonOutcome(parsed) ==
    IF parsed = <<>>
    THEN [result |-> <<>>, error |-> <<<<"SyntaxError">>>>, handled |-> <<>>]
    ELSE IF parsed[1] = JsonNull
    THEN [result |-> <<>>,
          error |-> <<<<"TypeError: Cannot read properties of null">>>>,
          handled |-> parsed]
    ELSE [result |-> <<[voiceName |-> member(parsed[1], "voiceName"),
                        version |-> member(parsed[1], "version"),
                        cloneDir |-> member(parsed[1], "cloneDir")]>>,
          error |-> <<>>,
          handled |-> parsed]

\* lines 478-511: what the response gives: result is <<r>> when one was
\* read, error <<m>> when an exception was thrown, handled the values that
\* were read as events
readResult(response) ==
    IF response.kind = "rejected"
    THEN [result |-> <<>>, error |-> <<<<"Failed to fetch">>>>, handled |-> <<>>]
    ELSE IF response.kind = "http"
    THEN [result |-> <<>>,
          error |-> <<httpErrorMessage(response.status, response.text)>>,
          handled |-> <<>>]
    ELSE IF response.kind = "ndjson"
    THEN streamOutcome(readCloneProgressStream(response.body))
    ELSE IF trim(response.text) = <<>>
    THEN [result |-> <<>>,
          error |-> <<<<"Voice cloning failed: empty response from server.">>>>,
          handled |-> <<>>]
    ELSE jsonOutcome(jsonParse(response.text))

\* lines 429-459: the resets and the validations; when all pass, cloning and
\* the progress text are set and the request is sent
submitStart(p, f) ==
    LET cleared == [p EXCEPT !.cloneProgress = <<>>, !.cloneError = validationError(f),
                             !.cloneSuccess = <<>>]
    IN  IF validationError(f) /= <<>> THEN cleared
        ELSE [cleared EXCEPT !.cloning = TRUE,
                             !.cloneProgress = <<<<"Starting clone job...">>>>,
                             !.pc = "sent"]

\* lines 529-534: the catch and finally blocks
cloneFailed(p, message) ==
    [p EXCEPT !.cloneError = <<message>>, !.cloneProgress = <<>>, !.cloning = FALSE,
              !.pc = "idle"]

\* lines 513-518: cloneSuccess is set and loadVoices is called
cloneSucceeded(p, result) ==
    [p EXCEPT !.cloneSuccess = <<result>>, !.pc = "listing"]

\* lines 518-528 and 532-534: loadVoices got its answer, the selection is set
\* to the result (undefined when a member is missing) and the panel is reset
cloneListed(p, listingOk, listing) ==
    LET result == p.cloneSuccess[1]
    IN  [loadVoices(p, listingOk, listing)
            EXCEPT !.selectedVoiceName =
                       IF result.voiceName = <<>> THEN Undefined ELSE result.voiceName[1],
                   !.selectedVoiceVersion =
                       IF result.version = <<>> THEN Undefined
                       ELSE toDecimal(result.version[1]),
                   !.cloneProgress = <<>>,
                   !.cloning = FALSE,
                   !.pc = "idle"]

\* the answers of GET /api/voices: name ascending, version descending
Voice(name, version) == [name |-> name, version |-> version]
ListingSamples ==
    {<<>>,
     <<Voice(<<"a">>, 1)>>,
     <<Voice(<<"a">>, 3), Voice(<<"a">>, 2), Voice(<<"B">>, 2), Voice(<<"B">>, 1)>>,
     <<Voice(<<"a", "b">>, 2), Voice(<<"B">>, 3)>>}

\* the fields of the clone panel: one set for each validation and three
\* that pass
CloneFields(name, mode, url, file, recorded, recording) ==
    [cloneVoiceName |-> name, cloneSourceMode |-> mode, cloneSourceUrl |-> url,
     cloneSourceFile |-> file, cloneRecordedFile |-> recorded, recording |-> recording]
FieldSamples ==
    {CloneFields(<<"a", "-", "b">>, "url", <<"u1">>, FALSE, FALSE, FALSE),
     CloneFields(<<"SP">>, "url", <<"u1">>, FALSE, FALSE, FALSE),
     CloneFields(<<"a">>, "url", <<"SP">>, FALSE, FALSE, FALSE),
     CloneFields(<<"a">>, "file", <<>>, FALSE, FALSE, FALSE),
     CloneFields(<<"a">>, "record", <<>>, FALSE, FALSE, FALSE),
     CloneFields(<<"a">>, "record", <<>>, FALSE, TRUE, TRUE),
     CloneFields(<<"SP", "a">>, "url", <<"u1">>, FALSE, FALSE, FALSE),
     CloneFields(<<"a">>, "file", <<>>, TRUE, FALSE, FALSE),
     CloneFields(<<"a">>, "record", <<>>, FALSE, TRUE, FALSE)}

\* the responses of POST /api/clone-voice
ResponseSamples ==
    {[kind |-> "rejected"]}
    \cup {[kind |-> "http", status |-> 400, text |-> t] :
            t \in {jsonStringify(ErrorEvent(<<"x">>)), <<"x">>, <<"SP">>,
                   jsonStringify(JsonNumber(5)), jsonStringify(JsonNull)}}
    \cup {[kind |-> "ndjson", body |-> b] : b \in BodySamples}
    \cup {[kind |-> "json", text |-> t] :
            t \in {<<>>, <<"x">>, jsonStringify(ResultEvent(<<"a">>, 1)),
                   jsonStringify(JsonNull), jsonStringify(JsonNumber(5))}}

\* what a response held: its kind and whether a result event (a result
\* object, for a JSON response) and an error event were read from it
responseDigest(kind, handled) ==
    [kind |-> kind,
     sawResult |-> \E i \in 1..Len(handled) :
                      /\ member(handled[i], "voiceName") /= <<>>
                      /\ member(handled[i], "version") /= <<>>
                      /\ kind = "ndjson" => member(handled[i], "type") = <<"result">>,
     sawError |-> /\ kind = "ndjson"
                  /\ \E i \in 1..Len(handled) : member(handled[i], "type") = <<"error">>]

PageInit ==
    /\ job = [r \in Requests |-> IdleJob]
    /\ voicesRoot = {}
    /\ downloadsDir = {}
    /\ tmp = {}
    /\ faults = {}

\* loadVoices() runs to its end
LoadVoices(r) ==
    /\ job[r].page.pc = "idle"
    /\ \E ok \in BOOLEAN, voices \in ListingSamples :
          job' = [job EXCEPT ![r].page =
             [loadVoices(@, ok, voices) EXCEPT !.last = [op |-> "loadVoices"]]]
    /\ UNCHANGED <<voicesRoot, downloadsDir, tmp, faults>>

\* the name select changes to one of its options, line 736
HandleVoiceNameChange(r) ==
    /\ job[r].page.pc = "idle"
    /\ \E i \in 1..Len(job[r].page.availableVoices) :
          job' = [job EXCEPT ![r].page =
             [handleVoiceNameChange(@, job[r].page.availableVoices[i].name) EXCEPT
                !.last = [op |-> "handleVoiceNameChange"]]]
    /\ UNCHANGED <<voicesRoot, downloadsDir, tmp, faults>>

\* submitCloneVoice() is called: it returns at a validation that fails, or
\* sends the request
SubmitCloneVoice(r) ==
    /\ job[r].page.pc = "idle"
    /\ \E f \in FieldSamples :
          job' = [job EXCEPT ![r].page =
             [submitStart(@, f) EXCEPT
                !.last = [op |-> "submitCloneVoice",
                          sent |-> validationError(f) = <<>>,
                          response |-> responseDigest("none", <<>>)]]]
    /\ UNCHANGED <<voicesRoot, downloadsDir, tmp, faults>>

\* the response of POST /api/clone-voice is read to its end: it gives no
\* result and the catch block runs, or it gives one and loadVoices is called
SubmitResponds(r) ==
    /\ job[r].page.pc = "sent"
    /\ \E response \in ResponseSamples :
          \E read \in {readResult(response)} :
             job' = [job EXCEPT ![r].page =
                [(IF read.error /= <<>> THEN cloneFailed(@, read.error[1])
                  ELSE cloneSucceeded(@, read.result[1]))
                   EXCEPT !.last.response = responseDigest(response.kind, read.handled)]]
    /\ UNCHANGED <<voicesRoot, downloadsDir, tmp, faults>>

\* the loadVoices() of submitCloneVoice gets its answer and submitCloneVoice
\* runs to its end
SubmitListed(r) ==
    /\ job[r].page.pc = "listing"
    /\ \E ok \in BOOLEAN, voices \in ListingSamples :
          job' = [job EXCEPT ![r].page = cloneListed(@, ok, voices)]
    /\ UNCHANGED <<voicesRoot, downloadsDir, tmp, faults>>

PageNext ==
    \/ LoadVoices(1)
    \/ HandleVoiceNameChange(1)
    \/ SubmitCloneVoice(1)
    \/ SubmitResponds(1)
    \/ SubmitListed(1)

\* The page operations one after another, each run to its end, in every
\* order and with every sample answer of the server.
PageSpec == PageInit /\ [][PageNext]_vars

\* ------------------------------------------------------ claims: vocabulary
IsTerminal(event) == event.type \in {"result", "error"}
IsStage(event) == event.type = "stage"
IsResult(event) == event.type = "result"

Terminals(r) == SelectSeq(job[r].stream, IsTerminal)
Results(r) == SelectSeq(job[r].stream, IsResult)
StageEvents(r) == SelectSeq(job[r].stream, IsStage)

\* the request passed validation and the streaming response exists
Streaming(r) == job[r].response.status = 200

\* the runner resolved with this request's process having exited
Exited(r) == job[r].result.state = "resolved"

\* msg is the last n (or all, if fewer) LF-separated lines of the trimmed text
IsTailOf(msg, text, n) ==
    LET all == splitNewline(trim(text))
        got == splitNewline(msg)
    IN  /\ Len(got) = (IF Len(all) <= n THEN Len(all) ELSE n)
        /\ \A i \in 1..Len(got) : got[i] = all[Len(all) - Len(got) + i]

\* the paths under os.tmpdir() that request r staged
StagedBy(r) == {p \in tmp : startsWith(p, freshTempDir(r))}

\* the versions of a name whose directory holds voice.safetensors
PresentVersions(name) ==
    {e \in voicesRoot : e.name = name /\ e.isDirectory /\ isValidVersion(e.vdir)
                        /\ e.artifact}

\* ----------------------------------------------------------------- C1
\* C1: a validated request's stream never holds more than one terminal event
\* (result or error), and holds exactly one once the request has finished,
\* whichever way the job ended.
C1_ExactlyOneTerminal ==
    \A r \in Requests :
        Streaming(r) =>
            /\ Len(Terminals(r)) <= 1
            /\ job[r].pc = "done" => Len(Terminals(r)) = 1

\* a request whose spawn failed has finished with its single error event
C1_Witness ==
    \E r \in Requests :
        /\ job[r].pc = "done" /\ Streaming(r)
        /\ job[r].result.state = "rejected"
        /\ Terminals(r) = <<ErrorEvent(<<"spawn uv ENOENT">>)>>

\* ----------------------------------------------------------------- C2
\* C2: the terminal event is the last record of the stream: no record ever
\* follows it, and once a terminal event is enqueued or the
\* stream is closed the stream never changes again.
C2_TerminalIsLast ==
    /\ [](\A r \in Requests : \A i \in 1..Len(job[r].stream) :
            IsTerminal(job[r].stream[i]) => i = Len(job[r].stream))
    /\ [][\A r \in Requests :
            (Len(Terminals(r)) > 0 \/ job[r].streamClosed)
                => job'[r].stream = job[r].stream]_vars

\* a closed stream of stage events ended by its terminal event
C2_Witness ==
    \E r \in Requests :
        /\ job[r].pc = "done" /\ job[r].streamClosed
        /\ Len(job[r].stream) >= 4
        /\ IsTerminal(job[r].stream[Len(job[r].stream)])
        /\ Exited(r) /\ job[r].result.code /= 0

\* ----------------------------------------------------------------- C3
\* what the claim calls an invalid request, read off the submitted form
FormVoiceName(f) == IF f.voiceName = <<>> THEN <<>> ELSE trim(f.voiceName[1])
FormMode(f) == IF f.sourceMode = <<>> THEN "url" ELSE f.sourceMode[1]

BadName(f) ==
    \/ FormVoiceName(f) = <<>>
    \/ \E i \in 1..Len(FormVoiceName(f)) : FormVoiceName(f)[i] \notin WordChars

EmptyUrl(f) ==
    FormMode(f) = "url" /\ (f.sourceUrl = <<>> \/ trim(f.sourceUrl[1]) = <<>>)

MissingFile(f) ==
    FormMode(f) = "file" /\ (f.sourceFile.kind /= "file" \/ f.sourceFile.size = 0)

UnknownMode(f) == FormMode(f) \notin {"url", "file"}

InvalidForm(f) == BadName(f) \/ EmptyUrl(f) \/ MissingFile(f) \/ UnknownMode(f)

C4_TempDirRemoved ==
    \A r \in Requests :
        job[r].pc = "done" => StagedBy(r) = {} /\ job[r].rmCalls <= 1

\* an upload request has finished with a result after staging its file
C4_Witness ==
    \E r \in Requests :
        /\ job[r].pc = "done" /\ job[r].sourceMode = "file"
        /\ job[r].rmCalls = 1 /\ Len(Results(r)) = 1
        /\ StagedBy(r) = {}

\* ----------------------------------------------------------------- C5
\* C5: a result event is in the stream only if the process exited with code
\* 0 and the scan made after that exit returned a present version of the
\* requested name, which is the version reported; the registry is scanned
\* and a version is held only after an exit with code 0.
C5_ResultOnlyAfterSuccess ==
    \A r \in Requests :
        /\ Len(Results(r)) > 0 =>
              /\ Exited(r) /\ job[r].result.code = 0 /\ job[r].child = "closed"
              /\ job[r].listCalls = 1
              /\ \E i \in 1..Len(job[r].voices) :
                    /\ job[r].voices[i].name = job[r].voiceName
                    /\ job[r].voices[i].version = Results(r)[1].version
        /\ (job[r].listCalls > 0 \/ job[r].latestVersion /= <<>> \/ job[r].pc = "list")
              => Exited(r) /\ job[r].result.code = 0 /\ job[r].child = "closed"

\* a job has finished with a result for a version produced by its process
C5_Witness ==
    \E r \in Requests :
        /\ job[r].pc = "done" /\ job[r].wrote
        /\ Len(Results(r)) = 1 /\ Results(r)[1].version >= 1

\* ----------------------------------------------------------------- C6
\* C6: when the process exited with code 0 and the registry holds no present
\* version of the requested name, the stream ends with the error event that
\* carries the result-not-found message, which is not the message built from
\* the process output, and holds no result event.
C6_ResultNotFound ==
    \A r \in Requests :
        (/\ job[r].pc \in {"finally", "done"}
         /\ Exited(r) /\ job[r].result.code = 0
         /\ PresentVersions(job[r].voiceName) = {})
        => /\ Terminals(r) = <<ErrorEvent(NotFoundMessage)>>
           /\ job[r].stream[Len(job[r].stream)] = ErrorEvent(NotFoundMessage)
           /\ NotFoundMessage /= failureMessage(job[r].stderr, job[r].stdout)
           /\ Results(r) = <<>>

\* the process printed on stderr, exited 0 and left a version directory
\* without the artifact; the job has ended with the not-found error
C6_Witness ==
    \E r \in Requests :
        /\ job[r].pc = "done" /\ Exited(r) /\ job[r].result.code = 0
        /\ job[r].wrote /\ job[r].stderr /= <<>>
        /\ PresentVersions(job[r].voiceName) = {}
        /\ Terminals(r) = <<ErrorEvent(NotFoundMessage)>>

\* ----------------------------------------------------------------- C7
\* C7: after an exit with a nonzero code the stream holds one terminal
\* event, an error whose message is the whole trimmed error output when that
\* has at most 25 lines, and no result event; the cache is not evicted and
\* the registry is not scanned.
C7_NonzeroExitStops ==
    \A r \in Requests :
        (job[r].pc \in {"finally", "done"} /\ Exited(r) /\ job[r].result.code /= 0)
        => /\ Len(Terminals(r)) = 1 /\ Terminals(r)[1].type = "error"
           /\ (job[r].stderr /= <<>>
               /\ Len(splitNewline(trim(job[r].stderr))) <= TailLines)
                  => Terminals(r)[1].error = trim(job[r].stderr)
           /\ Results(r) = <<>>
           /\ job[r].evictCalls = 0 /\ job[r].listCalls = 0
           /\ job[r].voices = <<>> /\ job[r].latestVersion = <<>>

\* the process of a request that opted out of caching wrote a present
\* version, printed on stderr and exited with code 1; the job has ended
C7_Witness ==
    \E r \in Requests :
        /\ job[r].pc = "done" /\ Exited(r) /\ job[r].result.code = 1
        /\ job[r].stderr /= <<>> /\ job[r].wrote
        /\ job[r].sourceMode = "url" /\ ~job[r].cacheDownloads
        /\ PresentVersions(job[r].voiceName) /= {}
        /\ job[r].stream[Len(job[r].stream)].type = "error"

\* ----------------------------------------------------------------- C8
\* the text the failure message is cut from
FailureSource(r) ==
    IF job[r].stderr /= <<>> THEN job[r].stderr
    ELSE IF job[r].stdout /= <<>> THEN job[r].stdout
    ELSE <<"Voice clone failed.">>

FailureEnded(r) ==
    job[r].pc \in {"finally", "done"} /\ Exited(r) /\ job[r].result.code /= 0

InitialGuess(mode) == IF mode = "url" THEN "downloading_media" ELSE "extracting_audio"

\* C9: the first event of a stream is the stage event starting and the second
\* the stage event downloading_media (url source) or extracting_audio (file
\* source); both are in the stream before the process is spawned and before
\* any of its output arrives.
C9_InitialStages ==
    \A r \in Requests :
        /\ Len(job[r].stream) >= 1
              => job[r].stream[1] =
                     [type |-> "stage", stage |-> "starting",
                      message |-> "Starting clone job..."]
        /\ Len(job[r].stream) >= 2
              => /\ job[r].stream[2].type = "stage"
                 /\ job[r].stream[2].stage = InitialGuess(FormMode(job[r].form))
        /\ (job[r].spawnCalls > 0 \/ job[r].child /= "none"
            \/ job[r].stdout /= <<>> \/ job[r].stderr /= <<>>
            \/ Streaming(r))
              => Len(job[r].stream) >= 2

\* an upload request whose process has printed a line that moved the stage
C9_Witness ==
    \E r \in Requests :
        /\ job[r].sourceMode = "file" /\ job[r].child = "running"
        /\ job[r].chunks = 1
        /\ Len(job[r].stream) = 4
        /\ job[r].stream[2].stage = "extracting_audio"
        /\ job[r].stream[3].stage = "saving_profile"

\* ----------------------------------------------------------------- C10
\* C10: no two consecutive stage events of a stream carry the same stage, and
\* the current stage is the stage of the last stage event.
C10_NoRepeatedStage ==
    \A r \in Requests :
        /\ \A i \in 1..(Len(job[r].stream) - 1) :
              (IsStage(job[r].stream[i]) /\ IsStage(job[r].stream[i + 1]))
                 => job[r].stream[i].stage /= job[r].stream[i + 1].stage
        /\ StageEvents(r) /= <<>>
              => job[r].currentStage = StageEvents(r)[Len(StageEvents(r))].stage
        /\ StageEvents(r) = <<>> => job[r].currentStage = NoStage

\* an upload request whose process printed two ffmpeg lines: the stage they
\* are classified as is the current one, and no event was added for them
C10_Witness ==
    \E r \in Requests :
        /\ job[r].sourceMode = "file" /\ job[r].chunks = 2
        /\ job[r].stdout = <<"FFmpeg", "SP", "x", "LF">>
        /\ job[r].stderr = <<"FFmpeg", "SP", "x", "LF">>
        /\ Len(job[r].stream) = 2
        /\ job[r].currentStage = "extracting_audio"

\* ----------------------------------------------------------------- C11
\* the position of a stage in the lifecycle order
\* starting < downloading_media < extracting_audio < cloning_voice
\*          < saving_profile < finalizing
StageRank(stage) ==
    CASE stage = "starting" -> 1
      [] stage = "downloading_media" -> 2
      [] stage = "extracting_audio" -> 3
      [] stage = "cloning_voice" -> 4
      [] stage = "saving_profile" -> 5
      [] stage = "finalizing" -> 6
      [] OTHER -> 0

\* C11 as claimed: the stage events of a job never regress: each stage event
\* carries a stage that is not earlier in the lifecycle order than the stage
\* of the stage event before it.
C11_StagesNeverRegress ==
    \A r \in Requests :
        \A i \in 1..(Len(StageEvents(r)) - 1) :
            StageRank(StageEvents(r)[i].stage) <= StageRank(StageEvents(r)[i + 1].stage)

\* ----------------------------------------------------------------- C12
\* the last n records of a stream
LastRecords(r, n) ==
    SubSeq(job[r].stream, Len(job[r].stream) - n + 1, Len(job[r].stream))

\* C12: a stream that holds a result event ends with the stage event
\* saving_profile, the stage event finalizing and the result event, in that
\* order and with nothing between them; these two are the last two stage
\* events, and the result carries the voice name of the request (trimmed and
\* in lower case, as the orchestrator passes it on) and the version resolved
\* by the registry scan.
C12_SuccessSuffix ==
    \A r \in Requests :
        Len(Results(r)) > 0 =>
            /\ Len(job[r].stream) >= 3
            /\ LastRecords(r, 3) =
                  << [type |-> "stage", stage |-> "saving_profile",
                      message |-> "Saving voice profile..."],
                     [type |-> "stage", stage |-> "finalizing",
                      message |-> "Finalizing clone..."],
                     Results(r)[1] >>
            /\ Results(r)[1].voiceName = toLowerCase(FormVoiceName(job[r].form))
            /\ job[r].latestVersion = <<Results(r)[1].version>>
            /\ \E e \in PresentVersions(Results(r)[1].voiceName) :
                  toNumber(e.vdir) = Results(r)[1].version

\* the process of a request named "aB" printed the lines that announce the
\* saved profile and the end of all jobs, wrote a version and exited 0: the
\* orchestrator went back to saving_profile, then finalizing, then the result
C12_Witness ==
    \E r \in Requests :
        /\ job[r].pc = "done" /\ Len(Results(r)) = 1
        /\ FormVoiceName(job[r].form) = <<"a", "B">>
        /\ Results(r)[1].voiceName = <<"a", "b">>
        /\ job[r].wrote
        /\ Len(job[r].stream) = 7
        /\ job[r].stream[4].stage = "finalizing"
        /\ job[r].stream[5].stage = "saving_profile"

\* ----------------------------------------------------------------- C13
\* C13: a request that has its streaming response eventually has exactly one
\* terminal event in a closed stream, when the process ends (exits or fails
\* to spawn) and the continuations of the job are run.
C13_EventuallyTerminal ==
    \A r \in Requests :
        Streaming(r) ~> (job[r].streamClosed /\ Len(Terminals(r)) = 1)

\* a request that opted out of caching has gone through two chunks of
\* output, the eviction and the registry scan, and ended with a closed stream
C13_Witness ==
    \E r \in Requests :
        /\ job[r].pc = "done" /\ Streaming(r)
        /\ job[r].chunks = 2 /\ job[r].evictCalls = 1 /\ job[r].listCalls = 1
        /\ job[r].streamClosed /\ Len(Terminals(r)) = 1

\* ----------------------------------------------------------------- C14
\* the job of r is over: the stream job has run to its end, or the server
\* process has ended with it
JobEnded(r) == job[r].pc \in {"done", "crashed"}

\* C14 as claimed: when the caller has cancelled the stream and the job has
\* ended, nothing that the request staged under the temporary directory
\* remains.
C14_CleanupAfterCancel ==
    \A r \in Requests :
        (job[r].cancelled /\ JobEnded(r)) => StagedBy(r) = {}

\* ----------------------------------------------------------------- C15
\* the lines of one pipe that were handed to onLine, in the order of the calls
DeliveredOn(j, isStderr) ==
    LET OfPipe(d) == d.isStderr = isStderr
        own == SelectSeq(j.delivered, OfPipe)
    IN  [i \in 1..Len(own) |-> own[i].line]

\* the lines handed to onLine when text arrives as one chunk and the stream
\* then ends
OneChunkLines(text) ==
    flushBuffer(text, FALSE).lines
        \o flushBuffer(flushBuffer(text, FALSE).buffer, TRUE).lines

OwnLinesOnly(j, isStderr, text, buffer) ==
    IF j.child = "closed"
    THEN DeliveredOn(j, isStderr) = OneChunkLines(text) /\ buffer = <<>>
    ELSE /\ DeliveredOn(j, isStderr) = flushBuffer(text, FALSE).lines
         /\ buffer = flushBuffer(text, FALSE).buffer

\* C16: in every interleaving of the 'data' events of the two pipes, the
\* lines of a pipe handed to onLine are the completed lines of that pipe's
\* text in their order and its buffer holds that text's incomplete last line,
\* and a chunk that arrives on one pipe leaves the buffer and the delivered
\* lines of the other pipe as they were.
C16_PipesIndependent ==
    /\ [](\A r \in Requests :
            /\ OwnLinesOnly(job[r], FALSE, job[r].stdout, job[r].stdoutBuffer)
            /\ OwnLinesOnly(job[r], TRUE, job[r].stderr, job[r].stderrBuffer))
    /\ [][\A r \in Requests :
            /\ job'[r].stdout /= job[r].stdout
                 => /\ job'[r].stderrBuffer = job[r].stderrBuffer
                    /\ DeliveredOn(job'[r], TRUE) = DeliveredOn(job[r], TRUE)
            /\ job'[r].stderr /= job[r].stderr
                 => /\ job'[r].stdoutBuffer = job[r].stdoutBuffer
                    /\ DeliveredOn(job'[r], FALSE) = DeliveredOn(job[r], FALSE)]_vars

\* each pipe has delivered a line and holds an incomplete one, the text of
\* each having arrived in two chunks, stderr's line before stdout's
C16_Witness ==
    \E r \in Requests :
        /\ job[r].child = "running" /\ job[r].chunks = 4
        /\ job[r].stdoutBuffer = <<"x">> /\ job[r].stderrBuffer = <<"y">>
        /\ job[r].delivered = << [isStderr |-> TRUE, line |-> <<"y">>],
                                 [isStderr |-> FALSE, line |-> <<"x">>] >>

\* ----------------------------------------------------------------- C17
\* C17: a child that failed to spawn never resolves the run, and the job of
\* a rejected run ends with one error event that carries the cause and with
\* no result event; a child that closed without an exit code resolves the run
\* with code 1, and its job ends with an error event, never scanning the
\* registry or reporting a result.
C17_SpawnFailureAndNullCode ==
    \A r \in Requests :
        /\ job[r].child = "failed" => job[r].result.state \in {"pending", "rejected"}
        /\ job[r].result.state = "rejected"
              => /\ job[r].child = "failed"
                 /\ job[r].result.error = <<"spawn uv ENOENT">>
        /\ (job[r].result.state = "rejected" /\ job[r].pc \in {"finally", "done"})
              => /\ Terminals(r) = <<ErrorEvent(<<"spawn uv ENOENT">>)>>
                 /\ Results(r) = <<>>
        /\ (job[r].child = "closed" /\ job[r].closeCode = <<>>)
              => /\ job[r].result.state = "resolved" /\ job[r].result.code = 1
                 /\ job[r].pc \in {"run", "finally", "done"}
                 /\ job[r].listCalls = 0 /\ job[r].evictCalls = 0
                 /\ Results(r) = <<>>
                 /\ job[r].pc \in {"finally", "done"}
                       => Len(Terminals(r)) = 1 /\ Terminals(r)[1].type = "error"

\* a process that wrote a present version and closed without an exit code:
\* the job has ended with an error event
C17_Witness ==
    \E r \in Requests :
        /\ job[r].pc = "done" /\ job[r].child = "closed" /\ job[r].closeCode = <<>>
        /\ job[r].wrote /\ PresentVersions(job[r].voiceName) /= {}
        /\ Len(Terminals(r)) = 1 /\ Terminals(r)[1].type = "error"

\* ----------------------------------------------------------------- C18
\* the caller opted out of caching
OptedOut(f) == f.cacheDownloads = <<"false">>

\* C18: the cache is evicted at most once, only after an exit with code 0 of
\* a url request that opted out of caching, and for every such request before
\* the registry is scanned and before the terminal event is emitted.
C18_EvictionExactlyWhen ==
    /\ [](\A r \in Requests :
            /\ job[r].evictCalls <= 1
            /\ job[r].evictCalls > 0
                  => /\ Exited(r) /\ job[r].result.code = 0
                     /\ FormMode(job[r].form) = "url" /\ OptedOut(job[r].form)
            /\ (/\ Exited(r) /\ job[r].result.code = 0
                /\ FormMode(job[r].form) = "url" /\ OptedOut(job[r].form)
                /\ \/ job[r].listCalls > 0 \/ Len(Terminals(r)) > 0
                   \/ job[r].pc \in {"list", "finally", "done"})
                  => job[r].evictCalls = 1)
    /\ [][\A r \in Requests :
            job'[r].evictCalls /= job[r].evictCalls
               => /\ job[r].listCalls = 0 /\ job'[r].listCalls = 0
                  /\ SelectSeq(job'[r].stream, IsTerminal) = <<>>]_vars

\* the eviction has run for a request that opted out; the registry has not
\* been scanned yet and the stream holds no terminal event
C18_Witness ==
    \E r \in Requests :
        /\ job[r].pc = "list" /\ job[r].evictCalls = 1 /\ job[r].listCalls = 0
        /\ OptedOut(job[r].form) /\ job[r].sourceMode = "url"
        /\ Terminals(r) = <<>>

\* ----------------------------------------------------------------- C19
\* name is the cache file of fingerprint fp: source_<fp> or youtube_<fp>,
\* alone or followed by a dot and an extension
IsCacheFileOf(name, fp) ==
    /\ Len(name) >= 2
    /\ name[1] \in {"source_", "youtube_"}
    /\ name[2] = fp
    /\ Len(name) = 2 \/ name[3] = "."

\* C19: the eviction for a source reference removes from the cache directory
\* exactly the files of the reference's fingerprint, under the prefix source_
\* and under the prefix youtube_, with or without an extension; every other
\* file stays.
C19_EvictsFingerprint ==
    [][\A r \in Requests :
          job'[r].evictCalls /= job[r].evictCalls
             => downloadsDir' =
                   {name \in downloadsDir :
                       ~IsCacheFileOf(name, sha256hex20(job[r].sourceUrl))}]_vars

\* the download of the request and the three older files of its fingerprint
\* are gone, the file of another fingerprint and the file whose stem only
\* starts with the fingerprint are left
C19_Witness ==
    \E r \in Requests :
        /\ job[r].evictCalls = 1 /\ job[r].wrote
        /\ job[r].sourceUrl = <<"u1">>
        /\ downloadsDir = {<<"source_", "d2", ".", "mp3">>,
                           <<"source_", "d1", "x", ".", "mp3">>}

\* ----------------------------------------------------------------- C20
\* the highest present version of a name
HighestPresent(name) ==
    LET numbers == {toNumber(e.vdir) : e \in PresentVersions(name)}
    IN  CHOOSE v \in numbers : \A w \in numbers : w <= v

\* the terminal event that the outcome of the run and the registry determine
ExpectedTerminal(r) ==
    IF job[r].result.state = "rejected" THEN ErrorEvent(job[r].result.error)
    ELSE IF job[r].result.code /= 0
    THEN ErrorEvent(failureMessage(job[r].stderr, job[r].stdout))
    ELSE IF PresentVersions(job[r].voiceName) = {} THEN ErrorEvent(NotFoundMessage)
    ELSE ResultEvent(job[r].voiceName, HighestPresent(job[r].voiceName))

\* C20: whether or not rm of the staging directory, readdir of the cache
\* directory or unlink of a cache file rejects, a finished job's stream is
\* closed and ends with the one terminal event that the run and the registry
\* determine, and a failed upload is answered 500; an eviction whose readdir
\* rejects removes nothing, and otherwise every targeted file is removed
\* except those whose own unlink rejected.
C20_CleanupFailuresSwallowed ==
    /\ [](\A r \in Requests :
            /\ (job[r].pc = "done" /\ Streaming(r))
                  => /\ Terminals(r) = <<ExpectedTerminal(r)>>
                     /\ job[r].stream[Len(job[r].stream)] = ExpectedTerminal(r)
                     /\ job[r].streamClosed /\ ~job[r].thrown
            /\ (job[r].pc = "done" /\ ~Streaming(r) /\ job[r].rmCalls > 0)
                  => job[r].response = [status |-> 500, error |-> "writeFile rejected"])
    /\ [][\A r \in Requests :
            job'[r].evictCalls /= job[r].evictCalls
               => IF job'[r].cacheReadFailed
                  THEN downloadsDir' = downloadsDir
                  ELSE downloadsDir' =
                          {name \in downloadsDir :
                              \/ ~IsCacheFileOf(name, sha256hex20(job[r].sourceUrl))
                              \/ name \in job'[r].unlinkFailed}]_vars

\* the unlink of the request's download rejected and the other files of the
\* fingerprint were removed; the job has ended with its result event
C20_Witness ==
    \E r \in Requests :
        /\ job[r].pc = "done" /\ Len(Results(r)) = 1
        /\ job[r].unlinkFailed = {<<"source_", "d1", ".", "mp3">>}
        /\ downloadsDir = {<<"source_", "d1", ".", "mp3">>,
                           <<"source_", "d2", ".", "mp3">>,
                           <<"source_", "d1", "x", ".", "mp3">>}

\* ----------------------------------------------------------------- C21
\* the (name, version) pairs of the registry that the listing has to report
ListablePairs(r) ==
    IF job[r].rootReadFailed THEN {}
    ELSE {<<e.name, toNumber(e.vdir)>> :
            e \in {x \in voicesRoot :
                     /\ x.nameIsDirectory /\ x.isDirectory /\ x.artifact
                     /\ x.name \notin job[r].unreadableNames
                     /\ x.name /= <<>> /\ \A i \in 1..Len(x.name) : x.name[i] \in WordChars
                     /\ x.vdir /= <<>> /\ x.vdir[1] /= "0"
                     /\ \A i \in 1..Len(x.vdir) : x.vdir[i] \in Digits}}

\* C21: the listing answers 200 with exactly the pairs whose name directory
\* and version directory match their patterns and hold voice.safetensors, each
\* once, by name ascending and within a name by version descending; an
\* unreadable root or name directory contributes nothing.
C21_ListingExactAndSorted ==
    \A r \in Requests :
        job[r].pc = "listed"
           => LET out == job[r].voices
              IN  /\ job[r].response.status = 200
                  /\ {<<out[i].name, out[i].version>> : i \in 1..Len(out)} = ListablePairs(r)
                  /\ Len(out) = Cardinality(ListablePairs(r))
                  /\ \A i \in 1..Len(out) : \A k \in (i + 1)..Len(out) :
                        \/ localeCompare(out[i].name, out[k].name) < 0
                        \/ out[i].name = out[k].name /\ out[i].version > out[k].version

\* ----------------------------------------------------------------- C22
\* C22: the step that emits a result event reports the highest number among
\* the versions of the requested name that hold the artifact in the registry
\* as it is at that step, and the location voices/<name>/<that number>.
C22_ReportsMaximum ==
    [][\A r \in Requests :
          Len(SelectSeq(job'[r].stream, IsResult)) > Len(Results(r))
             => LET ev == job'[r].stream[Len(job'[r].stream)]
                    present == {toNumber(e.vdir) : e \in PresentVersions(job[r].voiceName)}
                IN  /\ ev.type = "result"
                    /\ ev.voiceName = job[r].voiceName
                    /\ ev.version \in present
                    /\ \A v \in present : v <= ev.version
                    /\ ev.cloneDir = <<"voices", "/">> \o job[r].voiceName
                                        \o <<"/">> \o toDecimal(ev.version)]_vars

\* a result for version 3 of a name whose versions 1 and 3 hold the artifact
C22_Witness ==
    \E r \in Requests :
        /\ Len(Results(r)) = 1
        /\ Results(r)[1].version = 3
        /\ Results(r)[1].cloneDir = <<"voices", "/", "a", "/", "3">>
        /\ {toNumber(e.vdir) : e \in PresentVersions(<<"a">>)} = {1, 3}

\* ----------------------------------------------------------------- C23
\* C23: a result event reports a version that the job's own process created
\* with its artifact, never one that was in the registry before the job.
C23_ReportsProducedVersion ==
    \A r \in Requests :
        Len(Results(r)) > 0
           => \E e \in job[r].produced :
                 e.artifact /\ toNumber(e.vdir) = Results(r)[1].version

\* ----------------------------------------------------------------- C24
\* the versions of the job's name in the scan the job made
ScannedVersions(r) ==
    {job[r].voices[i].version :
        i \in {k \in 1..Len(job[r].voices) : job[r].voices[k].name = job[r].voiceName}}

\* C24: nothing ties a result to the job that produced it: each of two jobs
\* for one name reports the highest version in its own scan of the registry,
\* whichever process created it, so two jobs whose scans returned the same
\* listing report the same version.
C24_VersionFromScanAlone ==
    \A r \in Racers :
        Len(Results(r)) > 0
           => /\ Results(r)[1].version \in ScannedVersions(r)
              /\ \A v \in ScannedVersions(r) : v <= Results(r)[1].version
              /\ \A q \in Racers :
                    (/\ Len(Results(q)) > 0
                     /\ job[q].voiceName = job[r].voiceName
                     /\ job[q].voices = job[r].voices)
                       => Results(q)[1].version = Results(r)[1].version

\* both jobs for the name a ran at the same time, each job's process created
\* a version of its own with the artifact, and both jobs have ended with a
\* result event for the same version
C24_Witness ==
    /\ \A r \in Racers :
          /\ job[r].pc = "done" /\ Len(Results(r)) = 1
          /\ job[r].voiceName = <<"a">>
          /\ \E e \in job[r].produced : e.artifact
    /\ job[1].produced /= job[2].produced
    /\ Results(1)[1].version = Results(2)[1].version

\* ----------------------------------------------------------------- C25
\* s is the beginning of t
IsPrefix(s, t) == Len(s) <= Len(t) /\ s = SubSeq(t, 1, Len(s))

\* the consumer has left readCloneProgressStream
Finished(c) == c.pc \in {"returned", "threw"}

\* what the consumer shows and returns
Outcome(c) ==
    [pc |-> c.pc, result |-> c.result, cloneProgress |-> c.cloneProgress,
     error |-> c.error]

\* the outcome that a stream of events calls for: the progress text of the
\* last stage event; the fields of the result event returned, or a failure
\* with the message of the error event (a fixed message when it is empty) or,
\* without a terminal event, with the protocol violation
ExpectedOutcome(events) ==
    LET stages == SelectSeq(events, IsStage)
        last == events[Len(events)]
        progress == IF stages = <<>> THEN <<"Starting clone job...">>
                    ELSE <<stages[Len(stages)].message>>
    IN  IF events /= <<>> /\ last.type = "result"
        THEN [pc |-> "returned",
              result |-> <<[voiceName |-> <<last.voiceName>>,
                            version |-> <<last.version>>,
                            cloneDir |-> <<last.cloneDir>>]>>,
              cloneProgress |-> progress, error |-> <<>>]
        ELSE IF events /= <<>> /\ last.type = "error"
        THEN [pc |-> "threw", result |-> <<>>, cloneProgress |-> progress,
              error |-> IF last.error = <<>> THEN <<<<"Voice cloning failed.">>>>
                        ELSE <<last.error>>]
        ELSE [pc |-> "threw", result |-> <<>>, cloneProgress |-> progress,
              error |-> <<<<"Voice cloning finished without a result.">>>>]

\* C25: a consumer given the events of a job, one JSON record per line, with
\* or without the last newline and in chunks of any sizes, has at every
\* moment handled a beginning of the events in their order, and when it
\* finishes it has handled all of them and shows the outcome they call for.
C25_RoundTrip ==
    \A r \in Requests : \A events \in StreamSamples :
        LET c == job[r].client
        IN  (/\ c.pc /= "none"
             /\ c.wire \in {bodyOf(events), withoutLastNewline(bodyOf(events))})
            => /\ IsPrefix(c.handled, events)
               /\ Finished(c)
                     => c.handled = events /\ Outcome(c) = ExpectedOutcome(events)

\* two stage events and a result event whose record lacks the last newline,
\* received in chunks one of which ended inside a record, all handled
C25_Witness ==
    \E r \in Requests :
        /\ job[r].client.pc = "returned" /\ job[r].client.cut
        /\ job[r].client.wire =
              withoutLastNewline(bodyOf(<<StageEvent("starting"), StageEvent("finalizing"),
                                          ResultEvent(<<"a">>, 1)>>))
        /\ job[r].client.handled =
              <<StageEvent("starting"), StageEvent("finalizing"), ResultEvent(<<"a">>, 1)>>

\* ----------------------------------------------------------------- C26
\* C26: a line that is no event (text that does not parse, null, a number,
\* an object of an unknown type) among the records of a stream leaves the
\* consumer with the outcome of the stream without that line.
C26_OddLinesSkipped ==
    \A r \in Requests : \A events \in StreamSamples : \A line \in OddLines :
        LET c == job[r].client
        IN  (Finished(c) /\ c.wire = withOddLine(events, line))
               => Outcome(c) = ExpectedOutcome(events)

\* ----------------------------------------------------------------- C27
\* the value is an event of this type
HasType(value, type) == member(value, "type") = <<type>>

\* C27: a consumer returns only after it handled a result event; it fails
\* with the message of the error event once it handled one; and it fails
\* with the protocol violation when it reaches the end of the stream having
\* handled neither.
C27_ResultOrViolation ==
    \A r \in Requests :
        LET c == job[r].client
            Seen(type) == \E i \in 1..Len(c.handled) : HasType(c.handled[i], type)
        IN  /\ c.pc = "returned" => Seen("result")
            /\ (c.pc = "reading" /\ Seen("error")) => FALSE
            /\ (Finished(c) /\ Seen("error"))
                  => /\ c.pc = "threw"
                     /\ HasType(c.handled[Len(c.handled)], "error")
                     /\ c.handled[Len(c.handled)].error /= <<>>
                           => c.error = <<c.handled[Len(c.handled)].error>>
            /\ (c.ended /\ ~Seen("result") /\ ~Seen("error"))
                  => /\ c.pc = "threw"
                     /\ c.error = <<<<"Voice cloning finished without a result.">>>>

\* ----------------------------------------------------------------- C28
\* a non-empty string of letters, digits and underscores
IsWord(value) ==
    /\ Len(value) > 0
    /\ \A i \in 1..Len(value) :
          value[i] \in {"a", "b", "B", "wav"} \cup Digits \cup {"_"}

\* the decimal string of a positive integer, without leading zeros
IsPositiveDecimal(value) == \E n \in 1..99 : value = toDecimal(n)

\* C28: the two predicates accept exactly the words and the decimal strings
\* of positive integers, whatever the registry holds, and the artifact
\* endpoint answers 404 without reading a file when a parameter fails its
\* predicate; otherwise it reads the one file and answers by its presence.
C28_ValidationBeforeRead ==
    /\ \A voice \in VoiceParams : isValidVoiceName(voice) <=> IsWord(voice)
    /\ \A version \in VersionParams : isValidVersion(version) <=> IsPositiveDecimal(version)
    /\ \A r \in Requests :
          job[r].pc = "served"
             => LET a == job[r].artifact
                IN  IF IsWord(a.voice) /\ IsPositiveDecimal(a.version)
                    THEN /\ a.readCalls = 1
                         /\ a.status = 200 <=>
                               VersionEntry(a.voice, a.version, TRUE) \in voicesRoot
                         /\ a.status \in {200, 404}
                    ELSE a.readCalls = 0 /\ a.status = 404

\* the registry holds a-b/1/voice.safetensors; the request for a-b and 1 was
\* answered 404 and no file was read
C28_Witness ==
    \E r \in Requests :
        /\ job[r].pc = "served"
        /\ job[r].artifact.voice = <<"a", "-", "b">> /\ job[r].artifact.version = <<"1">>
        /\ VersionEntry(<<"a", "-", "b">>, <<"1">>, TRUE) \in voicesRoot
        /\ job[r].artifact.status = 404 /\ job[r].artifact.readCalls = 0

\* ----------------------------------------------------------------- C29
\* C29: the stem of a reference is source_ followed by the first 20
\* characters of the digest of the trimmed reference, all of them
\* hexadecimal, and every reference with the same trimmed text has this stem,
\* whenever it is computed.
C29_StemOfTrimmedReference ==
    \A r \in Requests :
        job[r].pc = "stemmed"
           => LET ref == job[r].form.sourceUrl[1]
                  chars == SubSeq(sha256hex(trim(ref)), 1, 20)
              IN  /\ Len(chars) = 20
                  /\ \A i \in 1..20 : chars[i] \in HexChars
                  /\ job[r].cacheStem = <<"source_", hexName(chars)>>
                  /\ \A other \in RefSamples :
                        trim(other) = trim(ref) => makeCacheStem(other) = job[r].cacheStem

\* the reference u1 between a blank and a newline has the stem of u1
C29_Witness ==
    \E r \in Requests :
        /\ job[r].pc = "stemmed"
        /\ job[r].form.sourceUrl = << <<"SP", "u1", "LF">> >>
        /\ job[r].cacheStem = <<"source_", "d1">>

\* ----------------------------------------------------------------- C30
\* C30: the stdout text and the stderr text that the runner returns are the
\* text of all the bytes received on stdout and the text of all the bytes
\* received on stderr, each in the order received.
C30_AccumulatedTextExact ==
    \A r \in Requests :
        Exited(r)
           => /\ job[r].result.stdout = chunkToString(job[r].outBytes)
              /\ job[r].result.stderr = chunkToString(job[r].errBytes)

\* ----------------------------------------------------------------- C31
\* the lines that a step hands to the callback of request r
LinesAdded(r) ==
    SubSeq(job'[r].delivered, Len(job[r].delivered) + 1, Len(job'[r].delivered))

Recognized(d) == inferCloneStageFromLine(d.line) /= NoStage

\* C31: a step that hands over only lines without a trigger leaves the
\* current stage and the emitted events as they were; a step that hands over
\* a line with a trigger leaves the stage that the last such line alone
\* determines, whichever pipe it came from and whatever came before.
C31_UnrecognizedLineNoEffect ==
    [][\A r \in Requests :
          Len(job'[r].delivered) > Len(job[r].delivered)
             => LET hits == SelectSeq(LinesAdded(r), Recognized)
                IN  IF hits = <<>>
                    THEN /\ job'[r].currentStage = job[r].currentStage
                         /\ job'[r].stream = job[r].stream
                    ELSE job'[r].currentStage =
                            inferCloneStageFromLine(hits[Len(hits)].line)]_vars

\* lines without a trigger have come from both pipes and the stream holds
\* the two stage events of the start only
C31_Witness ==
    \E r \in Requests :
        /\ \E i \in 1..Len(job[r].delivered) :
              job[r].delivered[i].isStderr /\ ~Recognized(job[r].delivered[i])
        /\ \E i \in 1..Len(job[r].delivered) :
              ~job[r].delivered[i].isStderr /\ ~Recognized(job[r].delivered[i])
        /\ Len(job[r].stream) = 2
        /\ job[r].currentStage = "downloading_media"

\* ----------------------------------------------------------------- C32
\* the trigger list in its order: each group with the stage it stands for
TriggerGroups ==
    << [stage |-> "downloading_media",
        triggers |-> {"downloading source audio", "yt-dlp", "[download]"}],
       [stage |-> "extracting_audio",
        triggers |-> {"extracting voice prompt clip", "ffmpeg"}],
       [stage |-> "cloning_voice",
        triggers |-> {"exporting voice embedding", "export-voice-embedding"}],
       [stage |-> "saving_profile",
        triggers |-> {"saved voice wav profile", "saved voice safetensors profile"}],
       [stage |-> "finalizing", triggers |-> {"all jobs completed"}] >>

\* the groups of which the line holds a trigger, in any case of its letters
GroupsHit(line) ==
    {g \in 1..Len(TriggerGroups) :
        \E i \in 1..Len(line) : lowerOf(line[i]) \in TriggerGroups[g].triggers}

\* C32: the classifier returns the stage of the first group of the list of
\* which the line holds a trigger in any case, no stage when it holds none,
\* and never the stage starting.
C32_FirstGroupWins ==
    \A r \in Requests :
        job[r].pc = "classified"
           => LET hit == GroupsHit(job[r].classified.line)
                  stage == job[r].classified.stage[1]
              IN  /\ stage /= "starting"
                  /\ hit = {} => stage = NoStage
                  /\ hit /= {} =>
                        stage = TriggerGroups[CHOOSE g \in hit : \A h \in hit : g <= h].stage

\* a line with the trigger of finalizing before FFmpeg is extracting_audio
C32_Witness ==
    \E r \in Requests :
        /\ job[r].pc = "classified"
        /\ job[r].classified.line = <<"All jobs completed", "x", "FFmpeg">>
        /\ job[r].classified.stage = <<"extracting_audio">>

\* ----------------------------------------------------------------- C33
\* C33: a step of one request (a line of its process, an event on its
\* stream, the closing of its stream) leaves every other request as it was:
\* its current stage, its events, its closed flag and its progress.
C33_JobsIsolated ==
    [][\A r \in Requests : \A q \in Requests \ {r} :
          job'[r] /= job[r] => job'[q] = job[q]]_vars

\* one stream is closed after finalizing while the other request is still
\* running at the stage extracting_audio with its stream open
C33_Witness ==
    \E r \in Requests : \E q \in Requests \ {r} :
        /\ job[r].streamClosed /\ job[r].controllerClosed
        /\ job[r].currentStage = "finalizing"
        /\ job[q].pc = "run" /\ ~job[q].streamClosed
        /\ job[q].currentStage = "extracting_audio"
        /\ Len(job[q].stream) = 3

\* ----------------------------------------------------------------- C34
\* C34: a step that removes the temporary directory of a request is taken
\* only when no process of the request is running: none was spawned, or the
\* runner's promise has settled by the close of the process or by the
\* failure of the spawn.
C34_RemovedAfterSettled ==
    [][\A r \in Requests :
          job'[r].rmCalls > job[r].rmCalls
             => /\ job[r].child /= "running"
                /\ \/ job[r].spawnCalls = 0
                   \/ job[r].result.state \in {"resolved", "rejected"}]_vars

\* the directory of an upload is gone after its process was spawned and closed
C34_Witness ==
    \E r \in Requests :
        /\ job[r].sourceMode = "file"
        /\ job[r].mkdtempCalls = 1 /\ job[r].spawnCalls = 1
        /\ job[r].child = "closed"
        /\ job[r].rmCalls = 1
        /\ freshTempDir(r) \notin tmp

\* ----------------------------------------------------------------- C35
\* the process of request r has been handed its argument list
Spawned(r) == job[r].spawnCalls > 0

\* path names a file directly or deeper inside dir
InsideDir(path, dir) ==
    /\ IsPrefix(dir \o <<"/">>, path)
    /\ SubSeq(path, Len(dir) + 2, Len(path)) \notin {<<>>, <<".">>, <<".", ".">>}
    /\ \A i \in Len(dir) + 2 .. Len(path) : path[i] /= "/"

\* C35: the argument list handed to the process is the fixed head with the
\* lower-cased validated name after --voice, then --start with the trimmed
\* start exactly when that is not empty, then --end likewise, then one
\* source option: --source-url with the trimmed url in url mode or
\* --source-file with a path inside the request's temporary directory in
\* file mode; the name after --voice is the name of the job and of every
\* result event.
C35_ArgumentList ==
    \A r \in Requests :
        Spawned(r)
           => LET a == job[r].args
                  f == job[r].form
                  mode == IF f.sourceMode = <<>> THEN "url" ELSE f.sourceMode[1]
                  start == trimmedField(f.start)
                  end == trimmedField(f.end)
                  atEnd == IF start /= <<>> THEN 11 ELSE 9
                  atSource == IF end /= <<>> THEN atEnd + 2 ELSE atEnd
              IN  /\ Len(a) = atSource + 1
                  /\ a[5] = <<"--voice">>
                  /\ a[6] = toLowerCase(trimmedField(f.voiceName))
                  /\ ~nameRejected(trimmedField(f.voiceName))
                  /\ (a[9] = <<"--start">>) <=> (start /= <<>>)
                  /\ start /= <<>> => a[10] = start
                  /\ (a[atEnd] = <<"--end">>) <=> (end /= <<>>)
                  /\ end /= <<>> => a[atEnd + 1] = end
                  /\ a[atSource] \in {<<"--source-url">>, <<"--source-file">>}
                  /\ a[atSource] = <<"--source-url">>
                        => mode = "url" /\ a[atSource + 1] = trimmedField(f.sourceUrl)
                                        /\ a[atSource + 1] /= <<>>
                  /\ a[atSource] = <<"--source-file">>
                        => mode = "file" /\ InsideDir(a[atSource + 1], freshTempDir(r))
                  /\ job[r].voiceName = a[6]
                  /\ \A i \in 1..Len(Results(r)) : Results(r)[i].voiceName = a[6]

\* an upload with a start spelled like an option has reported its result:
\* the list holds --start, that value, and --source-file with the staged path
C35_Witness ==
    \E r \in Requests :
        /\ Spawned(r)
        /\ Len(job[r].args) = 12
        /\ job[r].args[9] = <<"--start">>
        /\ job[r].args[10] = <<"--source-url">>
        /\ job[r].args[11] = <<"--source-file">>
        /\ job[r].args[12] = freshTempDir(r) \o <<"/", "a", "_", "b", ".", "wav">>
        /\ Len(Results(r)) = 1
        /\ Results(r)[1].voiceName = <<"a", "b">>

\* ----------------------------------------------------------------- C36
\* C36: every entry of the listing has a name that passes the name pattern
\* and a version whose text passes the version pattern, and the artifact
\* endpoint answers the entry's url with 200 and the file voice.safetensors
\* of that name and version.
C36_ListedIsServed ==
    \A r \in Requests :
        /\ job[r].pc \in {"listed", "served"}
              => \A i \in 1..Len(job[r].voices) :
                    /\ isValidVoiceName(job[r].voices[i].name)
                    /\ isValidVersion(toDecimal(job[r].voices[i].version))
        /\ job[r].pc = "served" /\ job[r].fetched > 0
              => LET v == job[r].voices[job[r].fetched]
                 IN  /\ job[r].artifact.status = 200
                     /\ job[r].artifact.path =
                           v.name \o <<"/">> \o toDecimal(v.version)
                                  \o <<"/", "voice.safetensors">>

\* ----------------------------------------------------------------- C37
\* the calls whose cachedFetch is under way
Fetching(r) == {c \in Calls : job[r].download.calls[c].pc = "fetching"}

\* C37: at most one call of fetch is between the start and the end of its
\* cachedFetch at any moment.
C37_OneDownloadAtATime ==
    \A r \in Requests : Cardinality(Fetching(r)) <= 1

\* ----------------------------------------------------------------- C38
\* C38: a clearing timer never sets downloadState to null while a download
\* is under way, and a call whose cachedFetch resolved has returned its data.
C38_TimerSparesLaterDownload ==
    [][\A r \in Requests :
          /\ job'[r].download.timers < job[r].download.timers => Fetching(r) = {}
          /\ \A c \in Calls :
                job'[r].download.calls[c].resolved
                   => job'[r].download.calls[c].pc = "returned"]_vars


\* ------------------------------------------------------ the page: claims
\* the selection is empty: name and version are both ""
SelectionEmpty(p) == p.selectedVoiceName = <<>> /\ p.selectedVoiceVersion = <<>>

\* the selection identifies an entry of the voices
SelectionListed(p, voices) ==
    \E i \in 1..Len(voices) :
        /\ voices[i].name = p.selectedVoiceName
        /\ toDecimal(voices[i].version) = p.selectedVoiceVersion

\* the versions of a name among the voices
VersionsOf(voices, name) ==
    {voices[i].version : i \in {k \in 1..Len(voices) : voices[k].name = name}}

\* the name is the first of the names of the voices, in code unit order
FirstOfNames(name, voices) ==
    /\ \E i \in 1..Len(voices) : voices[i].name = name
    /\ \A i \in 1..Len(voices) : voices[i].name = name \/ codeUnitLess(name, voices[i].name)

\* C39: after every page operation that ran to its end, the selection is
\* empty or identifies an entry of availableVoices; and when loadVoices got
\* a listing that has voices but not the previous selection, the selection
\* is the first name of the listing with version 1 if that name has it and
\* with its smallest version otherwise.
C39_SelectionIsListed ==
    [][\A r \in Requests :
          /\ job'[r].page.pc = "idle"
                => \/ SelectionEmpty(job'[r].page)
                   \/ SelectionListed(job'[r].page, job'[r].page.availableVoices)
          /\ ( /\ job'[r].page.last.op = "loadVoices"
               /\ job'[r].page.voicesError = <<>>
               /\ job'[r].page.availableVoices /= <<>>
               /\ ~SelectionListed(job[r].page, job'[r].page.availableVoices) )
             => /\ FirstOfNames(job'[r].page.selectedVoiceName, job'[r].page.availableVoices)
                /\ LET versions == VersionsOf(job'[r].page.availableVoices,
                                              job'[r].page.selectedVoiceName)
                   IN  job'[r].page.selectedVoiceVersion =
                          IF 1 \in versions THEN <<"1">>
                          ELSE toDecimal(CHOOSE v \in versions :
                                            \A w \in versions : v <= w)]_vars

\* the kinds of failure of submitCloneVoice: a validation fails, the response
\* is an HTTP error, an error event is read, or the stream ends with neither
\* a result event nor an error event
SubmitFailure(last) ==
    \/ ~last.sent
    \/ /\ last.sent
       /\ \/ last.response.kind = "http"
          \/ last.response.sawError
          \/ /\ last.response.kind = "ndjson"
             /\ ~last.response.sawResult

\* C40: when submitCloneVoice has returned, cloning is false and
\* cloneProgress is null, cloneError and cloneSuccess are not both set,
\* cloneSuccess is set only if the response delivered a result, and after a
\* validation failure, an HTTP error, an error event or a protocol violation
\* cloneError is set and cloneSuccess is null.
C40_ConsistentOutcome ==
    \A r \in Requests :
        LET p == job[r].page
        IN  (p.last.op = "submitCloneVoice" /\ p.pc = "idle")
               => /\ ~p.cloning
                  /\ p.cloneProgress = <<>>
                  /\ ~(p.cloneError /= <<>> /\ p.cloneSuccess /= <<>>)
                  /\ p.cloneSuccess /= <<>> => (p.last.sent /\ p.last.response.sawResult)
                  /\ SubmitFailure(p.last)
                        => (p.cloneError /= <<>> /\ p.cloneSuccess = <<>>)

====
